---- MODULE Spec2Model ----
(***************************************************************************)
(* HeartPod backend (ronsm/heartpod_backend).                              *)
(*                                                                         *)
(* Part I  : tts.py / asr.py / listen.py / ws_server.py - the speech turn  *)
(*           arbiter (local and temi playback), the capture-suppression    *)
(*           flag and the recognition pipeline.  SpecLocal, SpecTemi.      *)
(* Part II : robot.py - the session loop (stage machine, action queue,     *)
(*           reset signal, device acquisition).  SpecRobot (real sensors), *)
(*           SpecSim (simulated sensors).  SpecLocalFair adds the          *)
(*           scheduling of the speech threads to SpecLocal.                *)
(* Part III: ws_server.py / http_server.py / main.py - the gateway: the    *)
(*           event loop pushing snapshots to display clients               *)
(*           (SpecGateway), the inbound transports (SpecIngest) and the    *)
(*           action channel between producers and session (SpecChannel).   *)
(* Part IV : robot.py with tts.py - the session thread driving local       *)
(*           playback under the threads' scheduling.  SpecVoice.           *)
(***************************************************************************)
EXTENDS Integers, Sequences, FiniteSets, TLC

\* ------------------------------------------------------------------------
\* Bounds of the model (not program constants)
\* ------------------------------------------------------------------------
\* number of tts.speak() calls issued by the session thread
MaxSpeaks == 2
\* number of direct tts.stop() calls issued by the session thread
MaxStops == 1
\* number of tts_status messages a client sends
MaxStatus == 2
\* capacity to which the (unbounded) action queue is explored
MaxQueue == 1
\* number of display clients that connect to the gateway
MaxClients == 2
\* number of snapshots the session hands to a running event loop
MaxUpdates == 2
\* number of action reads of the session while the gateway is explored
MaxReads == 2
\* capacity to which the action queue is explored when its order is observed
MaxPending == 2
\* number of speak() calls, and of direct stop() calls, where the scheduling
\* of the speech threads is assumed
MaxTurns == 1

\* ------------------------------------------------------------------------
\* State
\* ------------------------------------------------------------------------
VARIABLES
    mode,          \* tts._mode after tts.init(): "none" | "local" | "temi"
    muted,         \* asr._muted (capture suppression flag)
    stop_flag,     \* tts._stop_flag
    current_seq,   \* tts._current_seq
    current_proc,  \* tts._current_proc: 0 = None, else the owning worker
    tts_active,    \* value of the last tts_active broadcast (False before any)
    tts_text,      \* utterance of the last tts broadcast (0 before any)
    bcast_false,   \* number of tts_active=false broadcasts so far
    workers,       \* _speak_local threads: [pc, seq, cur]
    procs,         \* afplay/aplay subprocess of each worker
    tpc,           \* position of the session thread inside speak()/stop()
    tret,          \* where stop() returns to
    tseq,          \* local `seq` of speak()
    nspeak,        \* speak() calls issued so far
    nstop,         \* direct stop() calls issued so far
    temi_timer,    \* tts._temi_fallback_timer: 0 = None, else timer id
    timers,        \* threading.Timer threads of the temi fallback
    unmuters,      \* _delayed_unmute threads started by tts_status=stop
    nstatus,       \* tts_status messages received so far
    rec_utt,       \* recognize(): utterance transcribed, not yet sent
    action_queue,  \* ws_server.action_queue
    reset_event,   \* ws_server.reset_event
    sensor_mode,   \* HealthRobotGraph.sensor_mode: "real" | "dummy"
    pc,            \* position of the session thread in robot.run()
    user_input,    \* result of action_queue.get() inside _ask_user
    device,        \* `device` of the running _reading_loop, "none" outside
    st,            \* the ConversationState of the running session
    ws_state,      \* ws_server._ws_state, the last snapshot
    device_queue,  \* device.device_queue
    sim_pending,   \* simulate_reading timers not yet fired, per device
    said,          \* the last message passed to _print_robot
    consec,        \* history: consecutive acquisition timeouts of the
                   \* current device since its last successful reading
    stale,         \* history: number of queued actions that were enqueued
                   \* before the latest stage transition
    loop_running,  \* ws_server._loop.is_running()
    clients,       \* ws_server._clients
    conn,          \* position of the _handler coroutine of each client
    cmsg,          \* the state message _handler built for each client
    loopq,         \* callbacks waiting on the event loop, oldest first
    recv,          \* history: the state messages each client has received
    ver,           \* history: number of snapshots handed to the event loop
    http_queue,    \* http_server.action_queue
    inflight       \* the request a transport has read and is about to handle

bcastVars == << tts_active, tts_text, bcast_false >>

vars == << mode, muted, stop_flag, current_seq, current_proc, bcastVars, workers,
           procs, tpc, tret, tseq, nspeak, nstop, temi_timer, timers,
           unmuters, nstatus, rec_utt, action_queue, reset_event,
           sensor_mode, pc, user_input, device, st, ws_state, device_queue,
           sim_pending, said, consec, stale, loop_running, clients, conn,
           cmsg, loopq, recv, ver, http_queue, inflight >>

\* the event loop of the gateway and its clients; the HTTP variant
gwRest == << loop_running, clients, conn, cmsg, recv, http_queue, inflight >>
gwVars == << gwRest, loopq, ver >>

ttsVars == << mode, muted, stop_flag, current_seq, current_proc, bcastVars,
              workers, procs, tpc, tret, tseq, nspeak, nstop, temi_timer,
              timers >>

\* the session loop and the simulated devices
sessionVars == << sensor_mode, pc, user_input, device, st, ws_state,
                  device_queue, sim_pending, said, consec, stale >>
robotVars == << sessionVars, gwVars >>

\* everything tts.py does not touch
nonTtsVars == << unmuters, nstatus, rec_utt, action_queue, reset_event,
                robotVars >>

Workers == 1..MaxSpeaks
Unmuters == 1..MaxStatus


\* ------------------------------------------------------------------------
\* ws_server._handler : inbound message -> action text
\* ------------------------------------------------------------------------
ACTION_TEXT ==
    [start |-> "Start Self-Screening", confirm |-> "yes", accept |-> "yes",
     ready |-> "ready", continue |-> "continue", skip |-> "skip",
     retry |-> "retry", exit |-> "no", finish |-> "done"]

\* variant of ActionTextOf that sends "answer" through the table like any
\* other keyword
ActionTextOf_TableOnly(action, data) ==
    IF action \in DOMAIN ACTION_TEXT THEN ACTION_TEXT[action] ELSE action

\* text = data.get("answer", action) / _ACTION_TEXT.get(action, action)
ActionTextOf(action, data) ==
    IF action = "answer"
      THEN (IF "answer" \in DOMAIN data THEN data.answer ELSE action)
      ELSE (IF action \in DOMAIN ACTION_TEXT THEN ACTION_TEXT[action] ELSE action)

\* variant of QueuePut that puts the text in front of the waiting ones
QueuePut_Front(q, text) == IF text # "" THEN << text >> \o q ELSE q

\* `if text: action_queue.put(text)`
QueuePut(q, text) == IF text # "" THEN Append(q, text) ELSE q

\* no request is being handled
NoRequest == [via |-> "none"]
Request(via, msg) == [via |-> via, msg |-> msg]

\* ------------------------------------------------------------------------
\* asr.py
\* ------------------------------------------------------------------------
asr_mute == muted' = TRUE
asr_unmute == muted' = FALSE

\* ws_server.broadcast_tts_active(False)
broadcast_tts_active_false ==
    /\ tts_active' = FALSE
    /\ bcast_false' = bcast_false + 1
is_muted == muted

\* ------------------------------------------------------------------------
\* tts.stop()  (also called from speak() in local mode)
\* ------------------------------------------------------------------------
\* stop() entered directly by the session thread; first statement
\* _stop_flag.set()
CallStopUpTo(cap) ==
    /\ tpc = "idle"
    /\ nstop < cap
    /\ nstop' = nstop + 1
    /\ stop_flag' = TRUE
    /\ tret' = "idle"
    /\ tpc' = "st_seq"
    /\ UNCHANGED << mode, muted, current_seq, current_proc, bcastVars, workers,
                    procs, tseq, nspeak, temi_timer, timers, nonTtsVars >>

CallStop == CallStopUpTo(MaxStops)

\* with _seq_lock: _current_seq += 1
StopBump ==
    /\ tpc = "st_seq"
    /\ current_seq' = current_seq + 1
    /\ tpc' = "st_kill"
    /\ UNCHANGED << mode, muted, stop_flag, current_proc, bcastVars, workers,
                    procs, tret, tseq, nspeak, nstop, temi_timer, timers, nonTtsVars >>

\* with _proc_lock: if _current_proc is not None: _current_proc.kill()
StopKill ==
    /\ tpc = "st_kill"
    /\ procs' = IF current_proc # 0 /\ procs[current_proc] = "running"
                  THEN [procs EXCEPT ![current_proc] = "killed"]
                  ELSE procs
    /\ tpc' = tret
    /\ UNCHANGED << mode, muted, stop_flag, current_seq, current_proc, bcastVars,
                    workers, tret, tseq, nspeak, nstop, temi_timer, timers, nonTtsVars >>

\* ------------------------------------------------------------------------
\* tts.speak(), mode "local"
\* ------------------------------------------------------------------------
\* asr.mute()
SpeakLocalMuteUpTo(cap) ==
    /\ tpc = "idle"
    /\ mode = "local"
    /\ nspeak < cap
    /\ nspeak' = nspeak + 1
    /\ asr_mute
    /\ tpc' = "sp_stop"
    /\ UNCHANGED << mode, stop_flag, current_seq, current_proc, bcastVars,
                    workers, procs, tret, tseq, nstop, temi_timer, timers, nonTtsVars >>

SpeakLocalMute == SpeakLocalMuteUpTo(MaxSpeaks)

\* stop(): its first statement; the rest is StopBump, StopKill
SpeakLocalStop ==
    /\ tpc = "sp_stop"
    /\ stop_flag' = TRUE
    /\ tret' = "sp_clear"
    /\ tpc' = "st_seq"
    /\ UNCHANGED << mode, muted, current_seq, current_proc, bcastVars, workers,
                    procs, tseq, nspeak, nstop, temi_timer, timers, nonTtsVars >>

\* _stop_flag.clear()
SpeakLocalClear ==
    /\ tpc = "sp_clear"
    /\ stop_flag' = FALSE
    /\ tpc' = "sp_seq"
    /\ UNCHANGED << mode, muted, current_seq, current_proc, bcastVars, workers,
                    procs, tret, tseq, nspeak, nstop, temi_timer, timers, nonTtsVars >>

\* with _seq_lock: _current_seq += 1; seq = _current_seq
SpeakLocalBump ==
    /\ tpc = "sp_seq"
    /\ current_seq' = current_seq + 1
    /\ tseq' = current_seq + 1
    /\ tpc' = "sp_bcast"
    /\ UNCHANGED << mode, muted, stop_flag, current_proc, bcastVars, workers,
                    procs, tret, nspeak, nstop, temi_timer, timers, nonTtsVars >>

\* broadcast_tts_active(True)
SpeakLocalBroadcast ==
    /\ tpc = "sp_bcast"
    /\ tts_active' = TRUE
    /\ UNCHANGED << tts_text, bcast_false >>
    /\ tpc' = "sp_start"
    /\ UNCHANGED << mode, muted, stop_flag, current_seq, current_proc, workers,
                    procs, tret, tseq, nspeak, nstop, temi_timer, timers, nonTtsVars >>

\* threading.Thread(target=_speak_local, args=(text, seq)).start()
SpeakLocalStart ==
    /\ tpc = "sp_start"
    /\ workers' = [workers EXCEPT ![nspeak] =
                      [pc |-> "w_start", seq |-> tseq, cur |-> 0]]
    /\ tpc' = "idle"
    /\ UNCHANGED << mode, muted, stop_flag, current_seq, current_proc, bcastVars,
                    procs, tret, tseq, nspeak, nstop, temi_timer, timers, nonTtsVars >>

\* ------------------------------------------------------------------------
\* tts._speak_local(text, seq) : the playback worker
\* ------------------------------------------------------------------------
WGoto(w, l) == [workers EXCEPT ![w].pc = l]

\* variant of WorkerStart in which a synthesis error or empty synthesis
\* leaves the worker without running the finally block
WorkerStart_NoFinally(w) ==
    /\ workers[w].pc = "w_start"
    /\ \E outcome \in {"audio", "error", "empty"} :
          workers' = WGoto(w, IF stop_flag THEN "fin_bcast"
                                ELSE IF outcome = "audio" THEN "readseq"
                                ELSE "skipped")
    /\ UNCHANGED << mode, muted, stop_flag, current_seq, current_proc, bcastVars,
                    procs, tpc, tret, tseq, nspeak, nstop, temi_timer,
                    timers, nonTtsVars >>

\* if _stop_flag.is_set(): return
\* _voice.synthesize(text): audio, an exception, or no chunks
WorkerStart(w) ==
    /\ workers[w].pc = "w_start"
    /\ \E outcome \in {"audio", "error", "empty"} :
          workers' = WGoto(w, IF ~stop_flag /\ outcome = "audio"
                                THEN "readseq" ELSE "fin_bcast")
    /\ UNCHANGED << mode, muted, stop_flag, current_seq, current_proc, bcastVars,
                    procs, tpc, tret, tseq, nspeak, nstop, temi_timer,
                    timers, nonTtsVars >>

\* with _seq_lock: current = _current_seq
WorkerReadSeq(w) ==
    /\ workers[w].pc = "readseq"
    /\ workers' = [workers EXCEPT ![w].pc = "check", ![w].cur = current_seq]
    /\ UNCHANGED << mode, muted, stop_flag, current_seq, current_proc, bcastVars,
                    procs, tpc, tret, tseq, nspeak, nstop, temi_timer,
                    timers, nonTtsVars >>

\* if _stop_flag.is_set() or seq != current: return
WorkerCheck(w) ==
    /\ workers[w].pc = "check"
    /\ workers' = [workers EXCEPT
                      ![w].pc = IF stop_flag \/ workers[w].seq # workers[w].cur
                                  THEN "fin_bcast" ELSE "launch",
                      ![w].cur = 0]
    /\ UNCHANGED << mode, muted, stop_flag, current_seq, current_proc, bcastVars,
                    procs, tpc, tret, tseq, nspeak, nstop, temi_timer,
                    timers, nonTtsVars >>

\* _play_aplay / _play_macos: subprocess.Popen(...), FileNotFoundError -> return
WorkerLaunch(w) ==
    /\ workers[w].pc = "launch"
    /\ \E found \in BOOLEAN :
          IF found
            THEN /\ procs' = [procs EXCEPT ![w] = "running"]
                 /\ workers' = WGoto(w, "register")
            ELSE /\ procs' = procs
                 /\ workers' = WGoto(w, "fin_bcast")
    /\ UNCHANGED << mode, muted, stop_flag, current_seq, current_proc, bcastVars,
                    tpc, tret, tseq, nspeak, nstop, temi_timer, timers, nonTtsVars >>

\* with _proc_lock: _current_proc = proc
WorkerRegister(w) ==
    /\ workers[w].pc = "register"
    /\ current_proc' = w
    /\ workers' = WGoto(w, "wait")
    /\ UNCHANGED << mode, muted, stop_flag, current_seq, bcastVars, procs, tpc,
                    tret, tseq, nspeak, nstop, temi_timer, timers, nonTtsVars >>

\* the player process ends by itself (end of audio, or the 60 s timeout kill)
ProcExit(w) ==
    /\ procs[w] = "running"
    /\ procs' = [procs EXCEPT ![w] = "exited"]
    /\ UNCHANGED << mode, muted, stop_flag, current_seq, current_proc, bcastVars,
                    workers, tpc, tret, tseq, nspeak, nstop, temi_timer,
                    timers, nonTtsVars >>

\* proc.wait() returns once the process is gone;
\* finally: with _proc_lock: if _current_proc is proc: _current_proc = None
WorkerWait(w) ==
    /\ workers[w].pc = "wait"
    /\ procs[w] \in {"exited", "killed"}
    /\ current_proc' = IF current_proc = w THEN 0 ELSE current_proc
    /\ workers' = WGoto(w, "fin_bcast")
    /\ UNCHANGED << mode, muted, stop_flag, current_seq, bcastVars, procs, tpc,
                    tret, tseq, nspeak, nstop, temi_timer, timers,
                    nonTtsVars >>

\* variant of WorkerFinBroadcast without the sequence guard
WorkerFinBroadcast_Unguarded(w) ==
    /\ workers[w].pc = "fin_bcast"
    /\ broadcast_tts_active_false
    /\ UNCHANGED tts_text
    /\ workers' = WGoto(w, "fin_unmute")
    /\ UNCHANGED << mode, muted, stop_flag, current_seq, current_proc, procs,
                    tpc, tret, tseq, nspeak, nstop, temi_timer, timers,
                    nonTtsVars >>

\* finally: with _seq_lock: if seq == _current_seq: broadcast_tts_active(False)
WorkerFinBroadcast(w) ==
    /\ workers[w].pc = "fin_bcast"
    /\ IF workers[w].seq = current_seq
         THEN broadcast_tts_active_false
         ELSE UNCHANGED << tts_active, bcast_false >>
    /\ UNCHANGED tts_text
    /\ workers' = WGoto(w, "fin_unmute")
    /\ UNCHANGED << mode, muted, stop_flag, current_seq, current_proc, procs,
                    tpc, tret, tseq, nspeak, nstop, temi_timer, timers, nonTtsVars >>

\* variant of WorkerFinUnmute without the sequence guard
WorkerFinUnmute_Unguarded(w) ==
    /\ workers[w].pc = "fin_unmute"
    /\ asr_unmute
    /\ workers' = WGoto(w, IF workers[w].seq = current_seq
                             THEN "done" ELSE "skipped")
    /\ UNCHANGED << mode, stop_flag, current_seq, current_proc, bcastVars, procs,
                    tpc, tret, tseq, nspeak, nstop, temi_timer, timers,
                    nonTtsVars >>

\* time.sleep(ASR_UNMUTE_DELAY); with _seq_lock: if seq == _current_seq: asr.unmute()
WorkerFinUnmute(w) ==
    /\ workers[w].pc = "fin_unmute"
    /\ IF workers[w].seq = current_seq
         THEN asr_unmute /\ workers' = WGoto(w, "done")
         ELSE muted' = muted /\ workers' = WGoto(w, "skipped")
    /\ UNCHANGED << mode, stop_flag, current_seq, current_proc, bcastVars, procs,
                    tpc, tret, tseq, nspeak, nstop, temi_timer, timers, nonTtsVars >>

\* ------------------------------------------------------------------------
\* tts.speak(), mode "temi"
\* ------------------------------------------------------------------------
\* if _temi_fallback_timer is not None: _temi_fallback_timer.cancel()
SpeakTemiCancel ==
    /\ tpc = "idle"
    /\ mode = "temi"
    /\ nspeak < MaxSpeaks
    /\ nspeak' = nspeak + 1
    /\ timers' = IF temi_timer # 0
                   THEN [timers EXCEPT ![temi_timer].finished = TRUE]
                   ELSE timers
    /\ tpc' = "tm_mute"
    /\ UNCHANGED << mode, muted, stop_flag, current_seq, current_proc, bcastVars,
                    workers, procs, tret, tseq, nstop, temi_timer,
                    nonTtsVars >>

\* asr.mute()
SpeakTemiMute ==
    /\ tpc = "tm_mute"
    /\ asr_mute
    /\ tpc' = "tm_bcast"
    /\ UNCHANGED << mode, stop_flag, current_seq, current_proc, bcastVars,
                    workers, procs, tret, tseq, nspeak, nstop, temi_timer,
                    timers, nonTtsVars >>

\* broadcast_tts(text)
SpeakTemiBroadcast ==
    /\ tpc = "tm_bcast"
    /\ tts_text' = nspeak
    /\ UNCHANGED << tts_active, bcast_false >>
    /\ tpc' = "tm_timer"
    /\ UNCHANGED << mode, muted, stop_flag, current_seq, current_proc, workers,
                    procs, tret, tseq, nspeak, nstop, temi_timer,
                    timers, nonTtsVars >>

\* _temi_fallback_timer = threading.Timer(delay, _temi_fallback); .start()
SpeakTemiStartTimer ==
    /\ tpc = "tm_timer"
    /\ timers' = [timers EXCEPT ![nspeak] =
                     [st |-> "waiting", finished |-> FALSE]]
    /\ temi_timer' = nspeak
    /\ tpc' = "idle"
    /\ UNCHANGED << mode, muted, stop_flag, current_seq, current_proc, bcastVars,
                    workers, procs, tret, tseq, nspeak, nstop, nonTtsVars >>

\* threading.Timer.run: finished.wait(delay); if not finished.is_set(): call
TimerExpire(t) ==
    /\ timers[t].st = "waiting"
    /\ timers' = [timers EXCEPT ![t].st =
                     IF timers[t].finished THEN "dead" ELSE "fire_unmute"]
    /\ UNCHANGED << mode, muted, stop_flag, current_seq, current_proc, bcastVars,
                    workers, procs, tpc, tret, tseq, nspeak, nstop,
                    temi_timer, nonTtsVars >>

\* _temi_fallback: asr.unmute()
TimerUnmute(t) ==
    /\ timers[t].st = "fire_unmute"
    /\ asr_unmute
    /\ timers' = [timers EXCEPT ![t].st = "fire_bcast"]
    /\ UNCHANGED << mode, stop_flag, current_seq, current_proc, bcastVars,
                    workers, procs, tpc, tret, tseq, nspeak, nstop,
                    temi_timer, nonTtsVars >>

\* _temi_fallback: broadcast_tts_active(False)
TimerBroadcast(t) ==
    /\ timers[t].st = "fire_bcast"
    /\ broadcast_tts_active_false
    /\ UNCHANGED tts_text
    /\ timers' = [timers EXCEPT ![t].st = "dead"]
    /\ UNCHANGED << mode, muted, stop_flag, current_seq, current_proc,
                    workers, procs, tpc, tret, tseq, nspeak, nstop,
                    temi_timer, nonTtsVars >>

\* the latest utterance whose speak() has executed asr.mute()
LastMuted == IF tpc = "tm_mute" THEN nspeak - 1 ELSE nspeak

\* ------------------------------------------------------------------------
\* ws_server._handler : one inbound message
\* ------------------------------------------------------------------------
Absent == "<absent>"
Get(v, default) == IF v = Absent THEN default ELSE v
\* data = msg.get("data", {}) : a dict, here with or without key "answer"
NoData == << >>

Msg(t, a, d, s) == [type |-> t, action |-> a, data |-> d, status |-> s]
TtsStatusMsg(s) == Msg("tts_status", Absent, NoData, s)
ActionMsg(a, d) == Msg("action", a, d, Absent)

\* the branch `msg_type == "tts_status"`
HandleTtsStatus(msg) ==
    /\ Get(msg.type, "action") = "tts_status"
    /\ nstatus < MaxStatus
    /\ nstatus' = nstatus + 1
    /\ unmuters' = IF Get(msg.status, "") = "stop"
                     THEN [unmuters EXCEPT ![nstatus + 1] =
                              [st |-> "sleeping", utt |-> tts_text]]
                     ELSE unmuters
    /\ UNCHANGED << action_queue, reset_event >>

\* the branch `action == "reset"`
HandleReset(msg) ==
    /\ Get(msg.type, "action") # "tts_status"
    /\ Get(msg.action, "") = "reset"
    /\ reset_event' = TRUE
    /\ UNCHANGED << action_queue, unmuters, nstatus >>

\* the remaining branch: map the keyword and enqueue a non-empty text
HandleActionUpTo(msg, cap) ==
    /\ Get(msg.type, "action") # "tts_status"
    /\ Get(msg.action, "") # "reset"
    /\ LET text == ActionTextOf(Get(msg.action, ""), msg.data)
       IN  /\ text # "" => Len(action_queue) < cap
           /\ action_queue' = QueuePut(action_queue, text)
    /\ UNCHANGED << reset_event, unmuters, nstatus >>

HandleAction(msg) == HandleActionUpTo(msg, MaxQueue)

\* _delayed_unmute: time.sleep(ASR_UNMUTE_DELAY); asr.unmute()
DelayedUnmute(u) ==
    /\ unmuters[u].st = "sleeping"
    /\ asr_unmute
    /\ unmuters' = [unmuters EXCEPT ![u].st = "done"]
    /\ UNCHANGED << mode, stop_flag, current_seq, current_proc, bcastVars,
                    workers, procs, tpc, tret, tseq, nspeak, nstop,
                    temi_timer, timers, nstatus, rec_utt, action_queue,
                    reset_event, robotVars >>

\* a client that has received an utterance reports tts_status=start|stop
ClientTtsStatus ==
    /\ tts_text > 0
    /\ \E s \in {"start", "stop"} : HandleTtsStatus(TtsStatusMsg(s))
    /\ UNCHANGED << ttsVars, rec_utt, robotVars >>

\* ------------------------------------------------------------------------
\* listen.recognize() : the recognition pipeline
\* ------------------------------------------------------------------------
NoUtt == "<none>"
\* what Whisper returns for a captured phrase
Transcripts == {" yes.", "You", " "}

\* utterance.strip().rstrip(".!?,;")
StripUtterance(t) ==
    CASE t = " yes." -> "yes"
      [] t = " "     -> ""
      [] OTHER       -> t

Hallucinations == {"", "Thank you for watching", "You"}

\* transcribe one phrase; hallucinations and empty text are dropped
RecTranscribe ==
    /\ rec_utt = NoUtt
    /\ \E t \in Transcripts :
          LET utterance == StripUtterance(t)
          IN  rec_utt' = IF utterance \in Hallucinations \/ utterance = ""
                           THEN NoUtt ELSE utterance
    /\ rec_utt' # NoUtt
    /\ UNCHANGED << ttsVars, unmuters, nstatus, action_queue, reset_event,
                    robotVars >>

\* asyncio.run(_send_ws(server_url, payload)): the gateway handles the
\* answer message, or the send raises and the utterance is lost
RecSend ==
    /\ rec_utt # NoUtt
    /\ rec_utt' = NoUtt
    /\ \E sent \in BOOLEAN :
          IF sent
            THEN HandleAction(ActionMsg("answer", [answer |-> rec_utt]))
            ELSE UNCHANGED << action_queue, reset_event, unmuters, nstatus >>
    /\ UNCHANGED << ttsVars, robotVars >>

\* ========================================================================
\* ws_server.py : the event loop, its clients and the pushed snapshots
\* ========================================================================
Clients == 1..MaxClients
NoMsg == [type |-> "none"]

\* json.dumps({"type": "state", "page_id": ..., "data": ...}); `ver` is a
\* history tag (the rank of the snapshot), not a field of the message
StateMsg(state, v) ==
    [type |-> "state", page_id |-> state.page_id, data |-> state.data,
     ver |-> v]

\* a callback of the event loop: a _broadcast coroutine, or the
\* asyncio.gather of its c.send(message) calls
BroadcastTask(msg) == [kind |-> "bcast", to |-> {}, msg |-> msg]
SendTask(targets, msg) == [kind |-> "send", to |-> targets, msg |-> msg]

\* the event loop runs one callback at a time: it is free unless a
\* _handler is between _clients.add and the end of its first send
LoopFree == \A c \in Clients : conn[c] # "added"

\* rank of the snapshot now in _ws_state: the session thread is between
\* the assignment and run_coroutine_threadsafe while it is at a flush
SnapshotVer == IF pc \in {"flush_ask", "flush_acquire", "flush_sorry"}
                 THEN ver + 1 ELSE ver

\* update_state, after the assignment of _ws_state:
\* if _loop and _loop.is_running(): run_coroutine_threadsafe(_broadcast(msg))
PushState ==
    IF loop_running
      THEN /\ loopq' = Append(loopq, BroadcastTask(StateMsg(ws_state, ver + 1)))
           /\ ver' = ver + 1
      ELSE UNCHANGED << loopq, ver >>

notGw == << ttsVars, unmuters, nstatus, rec_utt, action_queue, reset_event,
            sessionVars, http_queue, inflight >>

\* start_ws_server: the ws-server thread enters run_until_complete
LoopStart ==
    /\ ~loop_running
    /\ loop_running' = TRUE
    /\ UNCHANGED << notGw, clients, conn, cmsg, loopq, recv, ver >>

\* variant of HandlerAdd that greets the client with the constant initial
\* snapshot instead of _ws_state
HandlerAdd_InitialState(c) ==
    /\ loop_running
    /\ LoopFree
    /\ conn[c] = "none"
    /\ \A d \in Clients : d < c => conn[d] # "none"
    /\ clients' = clients \cup {c}
    /\ cmsg' = [cmsg EXCEPT ![c] =
                   StateMsg([page_id |-> 1, data |-> [kind |-> "empty"]], 0)]
    /\ conn' = [conn EXCEPT ![c] = "added"]
    /\ UNCHANGED << notGw, loop_running, loopq, recv, ver >>

\* _handler up to the argument of its first send: _clients.add(websocket)
\* and json.dumps({"type": "state", **_ws_state}).  Clients are numbered in
\* the order in which they connect
HandlerAdd(c) ==
    /\ loop_running
    /\ LoopFree
    /\ conn[c] = "none"
    /\ \A d \in Clients : d < c => conn[d] # "none"
    /\ clients' = clients \cup {c}
    /\ cmsg' = [cmsg EXCEPT ![c] = StateMsg(ws_state, SnapshotVer)]
    /\ conn' = [conn EXCEPT ![c] = "added"]
    /\ UNCHANGED << notGw, loop_running, loopq, recv, ver >>

\* await websocket.send(...): the message is written to the connection, or
\* the connection is already closed: ConnectionClosed, then the finally
HandlerSend(c) ==
    /\ conn[c] = "added"
    /\ \E ok \in BOOLEAN :
          IF ok
            THEN /\ recv' = [recv EXCEPT ![c] = Append(@, cmsg[c])]
                 /\ conn' = [conn EXCEPT ![c] = "open"]
                 /\ UNCHANGED clients
            ELSE /\ conn' = [conn EXCEPT ![c] = "gone"]
                 /\ clients' = clients \ {c}
                 /\ UNCHANGED recv
    /\ cmsg' = [cmsg EXCEPT ![c] = NoMsg]
    /\ UNCHANGED << notGw, loop_running, loopq, ver >>

\* the client goes away: its connection is closed, the handler has not run
ClientClose(c) ==
    /\ conn[c] = "open"
    /\ conn' = [conn EXCEPT ![c] = "closing"]
    /\ UNCHANGED << notGw, loop_running, clients, cmsg, loopq, recv, ver >>

\* `async for raw in websocket` ends; finally: _clients.discard(websocket).
\* What the departed client had received is of no further interest
HandlerFinally(c) ==
    /\ LoopFree
    /\ conn[c] = "closing"
    /\ clients' = clients \ {c}
    /\ conn' = [conn EXCEPT ![c] = "gone"]
    /\ recv' = [recv EXCEPT ![c] = << >>]
    /\ UNCHANGED << notGw, loop_running, cmsg, loopq, ver >>

\* _broadcast(message): if _clients: asyncio.gather(*(c.send(message) for c
\* in set(_clients)), return_exceptions=True) - the sends become callbacks
\* behind those already waiting
RunBroadcast ==
    /\ LoopFree
    /\ loopq # << >>
    /\ Head(loopq).kind = "bcast"
    /\ loopq' = IF clients # {}
                  THEN Append(Tail(loopq), SendTask(clients, Head(loopq).msg))
                  ELSE Tail(loopq)
    /\ UNCHANGED << notGw, loop_running, clients, conn, cmsg, recv, ver >>

\* variant of Deliver in which one failed send cancels the others
Deliver_AllOrNothing(task) ==
    [c \in Clients |->
        IF c \in task.to /\ (\A d \in task.to : conn[d] = "open")
          THEN Append(recv[c], task.msg) ELSE recv[c]]

\* the gathered sends: each target whose connection is open gets the
\* message; a send to a closed connection raises and gather returns the
\* exception in its result list
Deliver(task) ==
    [c \in Clients |->
        IF c \in task.to /\ conn[c] = "open"
          THEN Append(recv[c], task.msg) ELSE recv[c]]

RunSends ==
    /\ LoopFree
    /\ loopq # << >>
    /\ Head(loopq).kind = "send"
    /\ recv' = Deliver(Head(loopq))
    /\ loopq' = Tail(loopq)
    /\ UNCHANGED << notGw, loop_running, clients, conn, cmsg, ver >>

\* ========================================================================
\* Part II - robot.py : the session loop
\* ========================================================================
\* config.MAX_RETRIES
MAX_RETRIES == 3
\* number of action reads (each calls tts.stop(), which increments
\* _current_seq) to which the session loop is explored
MaxSeq == 13
\* simulate_reading timers that may be outstanding when the wait of an
\* acquisition times out (the timer of that acquisition included)
MaxLate == 1

Devices == {"oximeter", "bp", "scale"}
QKeys == {"q1", "q2", "q3"}
RKeys == {"oximeter_hr", "oximeter_spo2", "bp", "scale"}

\* config.PAGE_CONFIG[stage]["page_id"]
PAGE_ID ==
    [idle |-> "01", welcome |-> "02", q1 |-> "03", q2 |-> "04", q3 |-> "05",
     measure_intro |-> "06", oximeter_intro |-> "07",
     oximeter_reading |-> "08", oximeter_done |-> "09", bp_intro |-> "10",
     bp_reading |-> "11", bp_done |-> "12", scale_intro |-> "13",
     scale_reading |-> "14", scale_done |-> "15", recap |-> "16",
     sorry |-> "17"]

Stages == DOMAIN PAGE_ID

\* int(state["page_id"])
PageInt(p) ==
    LET ids == << "01", "02", "03", "04", "05", "06", "07", "08", "09", "10",
                  "11", "12", "13", "14", "15", "16", "17" >>
    IN  CHOOSE i \in 1..17 : ids[i] = p

\* two of the five config.PAGE_CONFIG[q]["options"] of each question
OPTIONS ==
    [q1 |-> {"A few times a day", "Many times per day"},
     q2 |-> {"Never", "Daily"},
     q3 |-> {"None", "1-7 units"}]

IntroOf == [oximeter |-> "oximeter_intro", bp |-> "bp_intro",
            scale |-> "scale_intro"]
ReadingOf == [oximeter |-> "oximeter_reading", bp |-> "bp_reading",
              scale |-> "scale_reading"]
DoneOf == [oximeter |-> "oximeter_done", bp |-> "bp_done",
           scale |-> "scale_done"]
\* variant of NextDevice without the blood-pressure cycle
NextDevice_SkipsBp == [oximeter |-> "scale", bp |-> "scale", scale |-> "none"]

\* order of the three _reading_loop calls in run()
NextDevice == [oximeter |-> "bp", bp |-> "scale", scale |-> "none"]

ProceedStages == {"idle", "welcome", "measure_intro", "oximeter_intro",
                  "bp_intro", "scale_intro"}
DoneStages == {"oximeter_done", "bp_done", "scale_done"}

\* measurement values: a dict {"hr", "spo2"} or a scalar
Dict(h, o) == [hr |-> h, spo2 |-> o, v |-> Absent]
Scalar(x) == [hr |-> Absent, spo2 |-> Absent, v |-> x]
NoReading == Scalar(Absent)
IsDict(val) == val.hr # Absent

\* device._generate_value / get_real_reading: the dict put on device_queue
\* or returned by the sensor
DeviceData(d) ==
    [device |-> d,
     value |-> CASE d = "oximeter" -> Dict("72", "98")
                 [] d = "bp"       -> Scalar("125/82")
                 [] d = "scale"    -> Scalar("74.2")]
NoneData == [device |-> "none", value |-> NoReading]

\* the state dict built at the top of each iteration of run()
FreshState ==
    [current_stage |-> "idle", page_id |-> PAGE_ID["idle"],
     robot_response |-> << >>,
     answers |-> [k \in QKeys |-> Absent],
     readings |-> [k \in RKeys |-> NoReading],
     retry_stage |-> "", retry_count |-> 0]

\* r.get(key, '?')
GetReading(r, k) == IF r[k] = NoReading THEN Scalar("?") ELSE r[k]
\* a.get(key, 'not answered')
GetAnswer(a, k) == IF a[k] = Absent THEN "not answered" ELSE a[k]

\* the message a node passes to _set_page
NodeMessage(s, stage) ==
    CASE stage \in DoneStages ->
           << "done", stage,
              [k \in RKeys |-> GetReading(s.readings, k)] >>
      [] stage = "recap" ->
           << "recap",
              [k \in QKeys |-> GetAnswer(s.answers, k)],
              [k \in RKeys |-> GetReading(s.readings, k)] >>
      [] stage = "sorry" -> << "sorry", s.retry_count, MAX_RETRIES >>
      [] OTHER -> << "page", stage >>

DeviceLabel == [oximeter_intro |-> "oximeter",
                bp_intro |-> "blood pressure monitor",
                scale_intro |-> "scale"]

\* robot._build_data
BuildData(s) ==
    LET stage == s.current_stage
        r == s.readings
    IN  CASE stage = "idle" -> [kind |-> "empty"]
          [] stage \in {"welcome", "measure_intro", "oximeter_reading",
                        "bp_reading", "scale_reading", "sorry"} ->
               [kind |-> "message", message |-> s.robot_response]
          [] stage \in QKeys ->
               [kind |-> "question", question |-> stage,
                options |-> OPTIONS[stage]]
          [] stage \in {"oximeter_intro", "bp_intro", "scale_intro"} ->
               [kind |-> "device", device |-> DeviceLabel[stage]]
          [] stage = "oximeter_done" ->
               [kind |-> "value",
                value |-> << GetReading(r, "oximeter_hr"),
                             GetReading(r, "oximeter_spo2") >>,
                unit |-> ""]
          [] stage = "bp_done" ->
               [kind |-> "value", value |-> << GetReading(r, "bp") >>,
                unit |-> "mmHg"]
          [] stage = "scale_done" ->
               [kind |-> "value", value |-> << GetReading(r, "scale") >>,
                unit |-> "kg"]
          [] stage = "recap" ->
               [kind |-> "recap",
                answers |-> [k \in QKeys |-> GetAnswer(s.answers, k)],
                readings |-> [k \in RKeys |-> GetReading(r, k)]]

\* variant of SetPageState that leaves page_id as it was
SetPageState_KeepPage(s, stage, message) ==
    [s EXCEPT !.current_stage = stage,
              !.robot_response = message]

\* robot._set_page: the state dict after the three assignments
SetPageState(s, stage, message) ==
    [s EXCEPT !.current_stage = stage,
              !.page_id = PAGE_ID[stage],
              !.robot_response = message]

\* _print_robot(msg) with playback disabled (mode "none"): the message is
\* printed and tts.speak() returns at once
PrintRobot(msg) ==
    /\ mode = "none"
    /\ said' = msg

\* the `message` returned by llm.evaluate_proceed when should_go is False
FollowUp == << "followup" >>
\* "I didn't quite catch that. Please choose one of: ..."
RePrompt(qkey) == << "reprompt", qkey, OPTIONS[qkey] >>
\* "Maximum retries reached. Returning to start."
MaxRetriesMsg == << "max_retries" >>
\* "No problem. Returning to start."
NoProblemMsg == << "no_problem" >>

\* where the session thread continues after the flush and the _print_robot
\* that follow a node
AfterFlush == [flush_ask |-> "ask", flush_acquire |-> "acquire",
               flush_sorry |-> "sorry_spoken"]
FlushPcs == DOMAIN AfterFlush

\* variant of EnterStage that builds the snapshot before the assignments
EnterStage_EarlySnapshot(s, stage, next) ==
    LET s1 == SetPageState(s, stage, NodeMessage(s, stage))
    IN  /\ st' = s1
        /\ ws_state' = [page_id |-> PageInt(s.page_id),
                        data |-> BuildData(s)]
        /\ pc' = next

\* a node up to update_state: _set_page assigns the three fields, builds
\* the snapshot from the updated state and hands it to the gateway
EnterStage(s, stage, next) ==
    LET s1 == SetPageState(s, stage, NodeMessage(s, stage))
    IN  /\ st' = s1
        /\ ws_state' = [page_id |-> PageInt(s1.page_id),
                        data |-> BuildData(s1)]
        /\ pc' = next

\* tts.stop() called by _ask_user while no player process exists
StopNow ==
    /\ stop_flag' = TRUE
    /\ current_seq' = current_seq + 1

ttsRest == << mode, muted, current_proc, bcastVars, workers, procs, tpc, tret,
             tseq, nspeak, nstop, temi_timer, timers, unmuters, nstatus,
             rec_utt >>

noTts == << ttsRest, stop_flag, current_seq, gwVars >>

\* variant of RunTop that re-enters Idle with the state of the previous
\* session
RunTop_KeepsState ==
    /\ pc = "run_top"
    /\ reset_event' = FALSE
    /\ action_queue' = << >>
    /\ stale' = 0
    /\ EnterStage(st, "idle", "flush_ask")
    /\ device' = "none"
    /\ user_input' = Absent
    /\ consec' = 0
    /\ UNCHANGED << noTts, sensor_mode, device_queue, sim_pending, said >>

\* ------------------------------------------------------------------------
\* run(): top of the outer loop up to idle_node's update_state
\* ------------------------------------------------------------------------
RunTop ==
    /\ pc = "run_top"
    /\ reset_event' = FALSE
    /\ action_queue' = << >>
    /\ stale' = 0
    /\ EnterStage(FreshState, "idle", "flush_ask")
    /\ device' = "none"
    /\ user_input' = Absent
    /\ consec' = 0
    /\ UNCHANGED << noTts, sensor_mode, device_queue, sim_pending, said >>

\* _do_device_reading begins: in dummy mode simulate_reading(device) starts
\* a timer that will push a reading
StartAcquisition(d) ==
    sim_pending' = IF sensor_mode = "dummy"
                     THEN [sim_pending EXCEPT ![d] = @ + 1]
                     ELSE sim_pending

\* variant of flush_action_queue that also clears the reset signal
flush_action_queue_ClearsSignal ==
    /\ action_queue' = << >>
    /\ stale' = 0
    /\ reset_event' = FALSE

\* ws_server.flush_action_queue: get_nowait() until queue.Empty; the reset
\* signal is not touched
flush_action_queue ==
    /\ action_queue' = << >>
    /\ stale' = 0
    /\ UNCHANGED reset_event

\* variant of FlushSpeak in which _set_page does not flush the queue
FlushSpeak_NoFlush ==
    /\ pc \in FlushPcs
    /\ PrintRobot(st.robot_response)
    /\ pc' = AfterFlush[pc]
    /\ IF pc = "flush_acquire"
         THEN StartAcquisition(device)
         ELSE UNCHANGED sim_pending
    /\ loop_running => ver < MaxUpdates
    /\ PushState
    /\ UNCHANGED << ttsRest, stop_flag, current_seq, gwRest, reset_event,
                    sensor_mode, user_input, device, st, ws_state,
                    device_queue, consec, action_queue, stale >>

\* the end of update_state (the hand-over to the event loop), the end of
\* _set_page and what follows the node: flush_action_queue(),
\* self._print_robot(state["robot_response"], state["page_id"]) and, in
\* _reading_loop after the reading node, the start of _do_device_reading
FlushSpeak ==
    /\ pc \in FlushPcs
    /\ flush_action_queue
    /\ PrintRobot(st.robot_response)
    /\ pc' = AfterFlush[pc]
    /\ IF pc = "flush_acquire"
         THEN StartAcquisition(device)
         ELSE UNCHANGED sim_pending
    /\ loop_running => ver < MaxUpdates
    /\ PushState
    /\ UNCHANGED << ttsRest, stop_flag, current_seq, gwRest, sensor_mode,
                    user_input, device, st, ws_state, device_queue, consec >>

\* ------------------------------------------------------------------------
\* _ask_user
\* ------------------------------------------------------------------------
\* if reset_event.is_set(): raise _ResetRequested()  (top of the poll loop)
AskReset ==
    /\ pc = "ask"
    /\ reset_event
    /\ pc' = "run_top"
    /\ UNCHANGED << noTts, action_queue, reset_event, sensor_mode,
                    user_input, device, st, ws_state, device_queue,
                    sim_pending, said, consec, stale >>

\* result = action_queue.get(timeout=0.2); tts.stop()
\* (explored up to `cap` reads)
AskGetUpTo(cap) ==
    /\ pc = "ask"
    /\ action_queue # << >>
    /\ current_seq < cap
    /\ user_input' = Head(action_queue)
    /\ action_queue' = Tail(action_queue)
    /\ stale' = IF stale > 0 THEN stale - 1 ELSE 0
    /\ StopNow
    /\ pc' = "got"
    /\ UNCHANGED << ttsRest, gwVars, reset_event, sensor_mode, device, st,
                    ws_state, device_queue, sim_pending, said, consec >>

AskGet == AskGetUpTo(MaxSeq)

\* if reset_event.is_set(): raise _ResetRequested()  (after the get)
GotReset ==
    /\ pc = "got"
    /\ reset_event
    /\ pc' = "run_top"
    /\ user_input' = Absent
    /\ UNCHANGED << noTts, action_queue, reset_event, sensor_mode, device,
                    st, ws_state, device_queue, sim_pending, said, consec,
                    stale >>

\* variant of AskReturn without the second reset check
AskReturn_NoRecheck == pc = "got"

\* return result: _ask_user hands the action to its caller
AskReturn ==
    /\ pc = "got"
    /\ ~reset_event

\* a stage transition makes every action still queued a stale one
MarkStale == stale' = Len(action_queue)

\* ------------------------------------------------------------------------
\* _wait_for_proceed at idle, welcome, measure_intro and the three intros;
\* should_go is the first component of llm.evaluate_proceed's result
\* ------------------------------------------------------------------------
\* variant of NotProceed that shows the page of the stage again
NotProceed_Redisplay ==
    /\ EnterStage(st, st.current_stage, "flush_ask")
    /\ UNCHANGED << said, device, stale >>

\* should_go is False: self._print_robot(message), then the loop repeats
NotProceed ==
    /\ PrintRobot(FollowUp)
    /\ pc' = "ask"
    /\ UNCHANGED << st, ws_state, device, stale >>

ProceedStep(should_go) ==
    /\ AskReturn
    /\ st.current_stage \in ProceedStages
    /\ user_input' = Absent
    /\ IF ~should_go
         THEN NotProceed
         ELSE /\ CASE st.current_stage = "idle" ->
                        /\ EnterStage(st, "welcome", "flush_ask")
                        /\ UNCHANGED device
                   [] st.current_stage = "welcome" ->
                        /\ EnterStage(st, "q1", "flush_ask")
                        /\ UNCHANGED device
                   [] st.current_stage = "measure_intro" ->
                        /\ EnterStage(st, IntroOf["oximeter"], "flush_ask")
                        /\ device' = "oximeter"
                   [] OTHER ->
                        /\ EnterStage(st, ReadingOf[device], "flush_acquire")
                        /\ UNCHANGED device
              /\ MarkStale
              /\ UNCHANGED said
    /\ UNCHANGED << noTts, reset_event, action_queue, sensor_mode,
                    device_queue, sim_pending, consec >>

Proceed == \E should_go \in BOOLEAN : ProceedStep(should_go)

\* ------------------------------------------------------------------------
\* the questionnaire loop of run(); (intent, value) is the result of
\* llm.evaluate_questionnaire_input
\* ------------------------------------------------------------------------
Intents == {"skip", "answer", "unclear"}

\* variant of NextQuestion in which the second question is left out
NextQuestion_SkipsQ2 == [q1 |-> "q3", q2 |-> "q3", q3 |-> "measure_intro"]

\* for qkey in ("q1", "q2", "q3"), then measure_intro
NextQuestion == [q1 |-> "q2", q2 |-> "q3", q3 |-> "measure_intro"]

\* variant of Record that writes every answer under "q1"
Record_WrongKey(qkey, val) ==
    /\ EnterStage([st EXCEPT !.answers["q1"] = val], NextQuestion[qkey],
                  "flush_ask")
    /\ MarkStale
    /\ UNCHANGED said

\* state["answers"][qkey] = ...; break; the next node of the script
Record(qkey, val) ==
    /\ EnterStage([st EXCEPT !.answers[qkey] = val], NextQuestion[qkey],
                  "flush_ask")
    /\ MarkStale
    /\ UNCHANGED said

\* variant of Unclear that counts the re-prompt as a failed attempt
Unclear_Counts(qkey) ==
    /\ PrintRobot(RePrompt(qkey))
    /\ pc' = "ask"
    /\ st' = [st EXCEPT !.retry_count = @ + 1]
    /\ UNCHANGED << ws_state, stale >>

\* variant of Unclear in which the re-prompt is also pushed as a snapshot
Unclear_Snapshot(qkey) ==
    /\ PrintRobot(RePrompt(qkey))
    /\ pc' = "ask"
    /\ ws_state' = [page_id |-> PageInt(st.page_id),
                    data |-> [kind |-> "message",
                              message |-> RePrompt(qkey)]]
    /\ UNCHANGED << st, stale >>

\* neither skip nor answer: the option list is spoken, the loop repeats
Unclear(qkey) ==
    /\ PrintRobot(RePrompt(qkey))
    /\ pc' = "ask"
    /\ UNCHANGED << st, ws_state, stale >>

QuestionStep(intent, value) ==
    /\ AskReturn
    /\ st.current_stage \in QKeys
    /\ user_input' = Absent
    /\ LET qkey == st.current_stage
       IN  CASE intent = "skip" -> Record(qkey, "skipped")
             [] intent = "answer" -> Record(qkey, value)
             [] OTHER -> Unclear(qkey)
    /\ UNCHANGED << noTts, reset_event, action_queue, sensor_mode, device,
                    device_queue, sim_pending, consec >>

\* the values the oracle may return with intent "answer"
Values == UNION {OPTIONS[q] : q \in QKeys}

Question ==
    \E intent \in Intents :
        \E value \in Values :
            /\ st.current_stage \in QKeys
            /\ value \in OPTIONS[st.current_stage]
            /\ QuestionStep(intent, value)

\* ------------------------------------------------------------------------
\* _confirm_reading at the three done stages
\* ------------------------------------------------------------------------
\* variant of Lower that leaves the text as it is
Lower_Identity(t) == t

\* user_input.lower()
Lower(t) == IF t \in {"Retry", "RETRY"} THEN "retry" ELSE t

\* variant of ConfirmStep in which the redo keyword gives the session up
ConfirmStep_RedoRestarts(should_go) ==
    /\ AskReturn
    /\ st.current_stage \in DoneStages
    /\ user_input' = Absent
    /\ IF Lower(user_input) = "retry"
         THEN /\ pc' = "run_top"
              /\ UNCHANGED << st, ws_state, stale, device, said >>
         ELSE IF ~should_go
           THEN NotProceed
           ELSE IF NextDevice[device] # "none"
             THEN /\ EnterStage(st, IntroOf[NextDevice[device]], "flush_ask")
                  /\ device' = NextDevice[device]
                  /\ MarkStale
                  /\ UNCHANGED said
             ELSE /\ EnterStage(st, "recap", "flush_ask")
                  /\ device' = "none"
                  /\ MarkStale
                  /\ UNCHANGED said
    /\ UNCHANGED << noTts, reset_event, action_queue, sensor_mode,
                    device_queue, sim_pending, consec >>

ConfirmStep(should_go) ==
    /\ AskReturn
    /\ st.current_stage \in DoneStages
    /\ user_input' = Absent
    /\ IF Lower(user_input) = "retry"
         THEN \* return False; `continue`: redo the reading
              /\ EnterStage(st, ReadingOf[device], "flush_acquire")
              /\ MarkStale
              /\ UNCHANGED << device, said >>
         ELSE IF ~should_go
           THEN NotProceed
           ELSE IF NextDevice[device] # "none"
             THEN /\ EnterStage(st, IntroOf[NextDevice[device]], "flush_ask")
                  /\ device' = NextDevice[device]
                  /\ MarkStale
                  /\ UNCHANGED said
             ELSE /\ EnterStage(st, "recap", "flush_ask")
                  /\ device' = "none"
                  /\ MarkStale
                  /\ UNCHANGED said
    /\ UNCHANGED << noTts, reset_event, action_queue, sensor_mode,
                    device_queue, sim_pending, consec >>

ConfirmReading == \E should_go \in BOOLEAN : ConfirmStep(should_go)

\* ------------------------------------------------------------------------
\* _reading_loop after the Sorry page: the ceiling, then retry or give up
\* ------------------------------------------------------------------------
\* variant of RetriesExhausted with a strict comparison
RetriesExhausted_Strict(s) == s.retry_count > MAX_RETRIES

\* if state["retry_count"] >= MAX_RETRIES
RetriesExhausted(s) == s.retry_count >= MAX_RETRIES

\* variant of CeilingCheck that waits for the user's answer at the ceiling
\* too
CeilingCheck_AlwaysAsks ==
    /\ pc = "sorry_spoken"
    /\ pc' = "ask"
    /\ UNCHANGED << noTts, reset_event, action_queue, sensor_mode,
                    user_input, device, st, ws_state, device_queue,
                    sim_pending, said, consec, stale >>

\* the ceiling check after the Sorry page was spoken
CeilingCheck ==
    /\ pc = "sorry_spoken"
    /\ IF RetriesExhausted(st)
         THEN /\ PrintRobot(MaxRetriesMsg)
              /\ pc' = "run_top"
         ELSE /\ pc' = "ask"
              /\ UNCHANGED said
    /\ UNCHANGED << noTts, reset_event, action_queue, sensor_mode,
                    user_input, device, st, ws_state, device_queue,
                    sim_pending, consec, stale >>

\* retry is the result of llm.retry_or_give_up
RetryStep(retry) ==
    /\ AskReturn
    /\ st.current_stage = "sorry"
    /\ user_input' = Absent
    /\ IF retry
         THEN /\ EnterStage(st, ReadingOf[device], "flush_acquire")
              /\ MarkStale
              /\ UNCHANGED said
         ELSE \* "No problem. Returning to start."; return False
              /\ PrintRobot(NoProblemMsg)
              /\ pc' = "run_top"
              /\ UNCHANGED << st, ws_state, stale >>
    /\ UNCHANGED << noTts, reset_event, action_queue, sensor_mode, device,
                    device_queue, sim_pending, consec >>

RetryOrGiveUp == \E retry \in BOOLEAN : RetryStep(retry)

\* run(): self._ask_user() after the recap - any input returns to idle
RecapDone ==
    /\ AskReturn
    /\ st.current_stage = "recap"
    /\ user_input' = Absent
    /\ pc' = "run_top"
    /\ UNCHANGED << noTts, reset_event, action_queue, sensor_mode, device,
                    st, ws_state, device_queue, sim_pending, said, consec,
                    stale >>

\* ------------------------------------------------------------------------
\* _do_device_reading and the rest of the _reading_loop iteration
\* ------------------------------------------------------------------------
\* variant of StoreReading that also clears the retry counter
StoreReading_ResetRetry(s, d, data) ==
    CASE d = "oximeter" ->
           [s EXCEPT !.readings["oximeter_hr"] = Scalar(data.value.hr),
                     !.readings["oximeter_spo2"] = Scalar(data.value.spo2),
                     !.retry_count = 0]
      [] d = "bp" -> [s EXCEPT !.readings["bp"] = data.value,
                               !.retry_count = 0]
      [] d = "scale" -> [s EXCEPT !.readings["scale"] = data.value,
                                  !.retry_count = 0]

\* variant of StoreReading that stores only the heart rate of an oximeter
\* reading
StoreReading_HrOnly(s, d, data) ==
    CASE d = "oximeter" ->
           [s EXCEPT !.readings["oximeter_hr"] = Scalar(data.value.hr)]
      [] d = "bp" -> [s EXCEPT !.readings["bp"] = data.value]
      [] d = "scale" -> [s EXCEPT !.readings["scale"] = data.value]

\* state["readings"][...] = ... for a reading `data` of `device`
StoreReading(s, d, data) ==
    CASE d = "oximeter" ->
           [s EXCEPT !.readings["oximeter_hr"] = Scalar(data.value.hr),
                     !.readings["oximeter_spo2"] = Scalar(data.value.spo2)]
      [] d = "bp" -> [s EXCEPT !.readings["bp"] = data.value]
      [] d = "scale" -> [s EXCEPT !.readings["scale"] = data.value]

\* variant of ReadingSucceeded in which the Done stage is entered without
\* the flush of the queue
ReadingSucceeded_NoFlush(data) ==
    IF device = "oximeter" /\ ~IsDict(data.value)
      THEN /\ pc' = "crashed"
           /\ UNCHANGED << st, ws_state, consec, stale >>
      ELSE /\ EnterStage(StoreReading(st, device, data), DoneOf[device],
                         "ask")
           /\ MarkStale
           /\ consec' = 0

\* _do_device_reading returned True: store, done node.
\* data["value"]["hr"] on a value that is no dict raises TypeError, which
\* nothing in run() catches
ReadingSucceeded(data) ==
    IF device = "oximeter" /\ ~IsDict(data.value)
      THEN /\ pc' = "crashed"
           /\ UNCHANGED << st, ws_state, consec, stale >>
      ELSE /\ EnterStage(StoreReading(st, device, data), DoneOf[device],
                         "flush_ask")
           /\ MarkStale
           /\ consec' = 0

\* variant of ReadingFailed that counts after the sorry node
ReadingFailed_LateCount ==
    LET s1 == SetPageState(st, "sorry", NodeMessage(st, "sorry"))
    IN  /\ st' = [s1 EXCEPT !.retry_count = @ + 1,
                            !.retry_stage = ReadingOf[device]]
        /\ ws_state' = [page_id |-> PageInt(s1.page_id),
                        data |-> BuildData(s1)]
        /\ pc' = "flush_sorry"
        /\ MarkStale
        /\ consec' = consec + 1

\* _do_device_reading returned False: count, sorry node
ReadingFailed ==
    LET s1 == [st EXCEPT !.retry_count = @ + 1,
                         !.retry_stage = ReadingOf[device]]
    IN  /\ EnterStage(s1, "sorry", "flush_sorry")
        /\ MarkStale
        /\ consec' = consec + 1

\* real mode: get_real_reading(device) returns a reading or None
AcquireReal ==
    /\ pc = "acquire"
    /\ sensor_mode = "real"
    /\ \E data \in {DeviceData(device), NoneData} :
          IF data = NoneData THEN ReadingFailed ELSE ReadingSucceeded(data)
    /\ UNCHANGED << noTts, reset_event, action_queue, sensor_mode,
                    user_input, device, device_queue, sim_pending, said >>

\* dummy mode: device_queue.get(timeout=READING_TIMEOUT) returns the head of
\* the queue
AcquireDummy ==
    /\ pc = "acquire"
    /\ sensor_mode = "dummy"
    /\ device_queue # << >>
    /\ device_queue' = Tail(device_queue)
    /\ ReadingSucceeded(Head(device_queue))
    /\ UNCHANGED << noTts, reset_event, action_queue, sensor_mode,
                    user_input, device, sim_pending, said >>

PendingTotal ==
    sim_pending["oximeter"] + sim_pending["bp"] + sim_pending["scale"]

\* dummy mode: queue.Empty after READING_TIMEOUT, the timer being late
AcquireDummyTimeout ==
    /\ pc = "acquire"
    /\ sensor_mode = "dummy"
    /\ device_queue = << >>
    /\ PendingTotal <= MaxLate
    /\ ReadingFailed
    /\ UNCHANGED << noTts, reset_event, action_queue, sensor_mode,
                    user_input, device, device_queue, sim_pending, said >>

\* device.simulate_reading._push: the timer fires
SimPush(d) ==
    /\ sim_pending[d] > 0
    /\ sim_pending' = [sim_pending EXCEPT ![d] = @ - 1]
    /\ device_queue' = Append(device_queue, DeviceData(d))
    /\ UNCHANGED << noTts, action_queue, reset_event, sensor_mode, pc,
                    user_input, device, st, ws_state, said, consec, stale >>

\* ------------------------------------------------------------------------
\* producers of the action queue
\* ------------------------------------------------------------------------
\* button presses sent by a connected client
ClientMessages ==
    {ActionMsg("confirm", NoData), ActionMsg("reset", NoData)}

ClientAction ==
    /\ \E msg \in ClientMessages : HandleReset(msg) \/ HandleAction(msg)
    /\ UNCHANGED << ttsVars, rec_utt, robotVars >>

TerminalLines == {" Retry", ""}
\* input("You: ").strip()
StripLine(l) == IF l = " Retry" THEN "Retry" ELSE l

\* main._terminal_input_loop: `if line: action_queue.put(line)`
TerminalInputUpTo(cap) ==
    /\ \E l \in TerminalLines :
          LET line == StripLine(l)
          IN  /\ line # "" => Len(action_queue) < cap
              /\ action_queue' = QueuePut(action_queue, line)
    /\ UNCHANGED << ttsVars, unmuters, nstatus, rec_utt, reset_event,
                    robotVars >>

TerminalInput == TerminalInputUpTo(MaxQueue)

\* ------------------------------------------------------------------------
\* The state after tts.init(m) and start_ws_server()
\* ------------------------------------------------------------------------
InitRobotVars(modes) ==
    /\ sensor_mode \in modes
    /\ pc = "run_top"
    /\ user_input = Absent
    /\ device = "none"
    /\ st = FreshState
    /\ ws_state = [page_id |-> 1, data |-> [kind |-> "empty"]]
    /\ device_queue = << >>
    /\ sim_pending = [d \in Devices |-> 0]
    /\ said = << >>
    /\ consec = 0
    /\ stale = 0
    /\ loop_running = FALSE
    /\ clients = {}
    /\ conn = [c \in Clients |-> "none"]
    /\ cmsg = [c \in Clients |-> NoMsg]
    /\ loopq = << >>
    /\ recv = [c \in Clients |-> << >>]
    /\ ver = 0
    /\ http_queue = << >>
    /\ inflight = NoRequest

\* variant of TtsInit that keeps the requested mode when the voice model or
\* the piper package is missing
TtsInit_NoFallback(requested, has_model, has_piper) ==
    IF requested \in {"local", "temi"} THEN requested ELSE "none"

\* tts.init(mode): the value of tts._mode it leaves.  has_model is
\* os.path.isfile(_PIPER_MODEL), has_piper is whether piper.voice imports
TtsInit(requested, has_model, has_piper) ==
    CASE requested = "local" ->
           IF has_model /\ has_piper THEN "local" ELSE "none"
      [] requested = "temi" -> "temi"
      [] OTHER -> "none"

\* --tts none, or --tts local on a machine where local playback cannot be
\* set up
SilentSetups ==
    { a \in [requested : {"none", "local"}, has_model : BOOLEAN,
             has_piper : BOOLEAN] :
        a.requested = "local" => ~(a.has_model /\ a.has_piper) }

InitTtsVars(m) ==
    /\ mode = m
    /\ muted = FALSE
    /\ stop_flag = FALSE
    /\ current_seq = 0
    /\ current_proc = 0
    /\ tts_active = FALSE
    /\ tts_text = 0
    /\ bcast_false = 0
    /\ workers = [w \in Workers |-> [pc |-> "unborn", seq |-> 0, cur |-> 0]]
    /\ procs = [w \in Workers |-> "none"]
    /\ tpc = "idle"
    /\ tret = "idle"
    /\ tseq = 0
    /\ nspeak = 0
    /\ nstop = 0
    /\ temi_timer = 0
    /\ timers = [t \in Workers |-> [st |-> "none", finished |-> FALSE]]
    /\ unmuters = [u \in Unmuters |-> [st |-> "none", utt |-> 0]]
    /\ nstatus = 0
    /\ rec_utt = NoUtt
    /\ action_queue = << >>
    /\ reset_event = FALSE

\* ------------------------------------------------------------------------
\* Specification SpecLocal: local playback (--tts local).  The session
\* thread issues speak() and stop() in any order; the playback workers and
\* their player processes run concurrently.
\* ------------------------------------------------------------------------
InitLocal == InitTtsVars(TtsInit("local", TRUE, TRUE)) /\ InitRobotVars({"real"})

NextLocal ==
    \/ CallStop
    \/ StopBump
    \/ StopKill
    \/ SpeakLocalMute
    \/ SpeakLocalStop
    \/ SpeakLocalClear
    \/ SpeakLocalBump
    \/ SpeakLocalBroadcast
    \/ SpeakLocalStart
    \/ \E w \in Workers : WorkerStart(w)
    \/ \E w \in Workers : WorkerReadSeq(w)
    \/ \E w \in Workers : WorkerCheck(w)
    \/ \E w \in Workers : WorkerLaunch(w)
    \/ \E w \in Workers : WorkerRegister(w)
    \/ \E w \in Workers : ProcExit(w)
    \/ \E w \in Workers : WorkerWait(w)
    \/ \E w \in Workers : WorkerFinBroadcast(w)
    \/ \E w \in Workers : WorkerFinUnmute(w)

SpecLocal == InitLocal /\ [][NextLocal]_vars

\* ------------------------------------------------------------------------
\* Specification SpecLocalFair: SpecLocal with the scheduling the threads
\* get: a call of speak() or stop() that has begun runs to its end, every
\* worker thread keeps running, and a player process ends (end of audio or
\* the 60 s timeout).  Nothing obliges the session to issue a call.
\* ------------------------------------------------------------------------
FairLocal ==
    /\ WF_vars(StopBump)
    /\ WF_vars(StopKill)
    /\ WF_vars(SpeakLocalStop)
    /\ WF_vars(SpeakLocalClear)
    /\ WF_vars(SpeakLocalBump)
    /\ WF_vars(SpeakLocalBroadcast)
    /\ WF_vars(SpeakLocalStart)
    /\ \A w \in Workers :
          /\ WF_vars(WorkerStart(w))
          /\ WF_vars(WorkerReadSeq(w))
          /\ WF_vars(WorkerCheck(w))
          /\ WF_vars(WorkerLaunch(w))
          /\ WF_vars(WorkerRegister(w))
          /\ WF_vars(ProcExit(w))
          /\ WF_vars(WorkerWait(w))
          /\ WF_vars(WorkerFinBroadcast(w))
          /\ WF_vars(WorkerFinUnmute(w))

TurnStop == CallStopUpTo(MaxTurns)

TurnSpeak == SpeakLocalMuteUpTo(MaxTurns)

NextLocalFair ==
    \/ TurnStop
    \/ StopBump
    \/ StopKill
    \/ TurnSpeak
    \/ SpeakLocalStop
    \/ SpeakLocalClear
    \/ SpeakLocalBump
    \/ SpeakLocalBroadcast
    \/ SpeakLocalStart
    \/ \E w \in Workers : WorkerStart(w)
    \/ \E w \in Workers : WorkerReadSeq(w)
    \/ \E w \in Workers : WorkerCheck(w)
    \/ \E w \in Workers : WorkerLaunch(w)
    \/ \E w \in Workers : WorkerRegister(w)
    \/ \E w \in Workers : ProcExit(w)
    \/ \E w \in Workers : WorkerWait(w)
    \/ \E w \in Workers : WorkerFinBroadcast(w)
    \/ \E w \in Workers : WorkerFinUnmute(w)

SpecLocalFair == InitLocal /\ [][NextLocalFair]_vars /\ FairLocal

\* ------------------------------------------------------------------------
\* Specification SpecTemi: remote playback (--tts temi) with the fallback
\* timers, the client's tts_status messages and the recognition pipeline.
\* ------------------------------------------------------------------------
InitTemi == InitTtsVars(TtsInit("temi", FALSE, FALSE)) /\ InitRobotVars({"real"})

NextTemi ==
    \/ CallStop
    \/ StopBump
    \/ StopKill
    \/ SpeakTemiCancel
    \/ SpeakTemiMute
    \/ SpeakTemiBroadcast
    \/ SpeakTemiStartTimer
    \/ \E t \in Workers : TimerExpire(t)
    \/ \E t \in Workers : TimerUnmute(t)
    \/ \E t \in Workers : TimerBroadcast(t)
    \/ ClientTtsStatus
    \/ \E u \in Unmuters : DelayedUnmute(u)
    \/ RecTranscribe
    \/ RecSend

SpecTemi == InitTemi /\ [][NextTemi]_vars

\* ------------------------------------------------------------------------
\* Specification SpecRobot: the session loop of robot.run() with playback
\* disabled (the default --tts none) or unavailable (--tts local without the
\* voice model or without piper), the gateway and the terminal as producers
\* of actions, and the real sensors.
\* ------------------------------------------------------------------------
InitRobot ==
    /\ \E a \in SilentSetups :
          InitTtsVars(TtsInit(a.requested, a.has_model, a.has_piper))
    /\ InitRobotVars({"real"})

NextRobot ==
    \/ RunTop
    \/ FlushSpeak
    \/ CeilingCheck
    \/ AskReset
    \/ AskGet
    \/ GotReset
    \/ Proceed
    \/ Question
    \/ ConfirmReading
    \/ RetryOrGiveUp
    \/ RecapDone
    \/ AcquireReal
    \/ ClientAction
    \/ TerminalInput

SpecRobot == InitRobot /\ [][NextRobot]_vars

\* ------------------------------------------------------------------------
\* The inbound transports: ws_server._handler and http_server.do_POST
\* ------------------------------------------------------------------------
Keywords == DOMAIN ACTION_TEXT

\* the action messages a client sends: the nine keywords, an answer with a
\* text, with an empty text and without data.answer, reset, a keyword the
\* table does not know, and a message without an action
IngestMessages ==
    {ActionMsg(k, NoData) : k \in Keywords}
       \cup {ActionMsg("answer", [answer |-> "Often"]),
             ActionMsg("answer", [answer |-> ""]),
             ActionMsg("answer", NoData),
             ActionMsg("reset", NoData),
             ActionMsg("help", NoData),
             ActionMsg(Absent, NoData)}

Transports == {"ws", "http"}

ingestRest == << ttsVars, rec_utt, sessionVars, loop_running, clients, conn,
                 cmsg, recv, loopq, ver >>

\* a transport has read one request: `async for raw in websocket` /
\* json.loads(self.rfile.read(length))
Receive ==
    /\ inflight = NoRequest
    /\ \E via \in Transports, msg \in IngestMessages :
          inflight' = Request(via, msg)
    /\ UNCHANGED << ingestRest, unmuters, nstatus, action_queue, reset_event,
                    http_queue >>

\* ws_server._handler: the body of the receive loop for an action message
WsHandle ==
    /\ inflight.via = "ws"
    /\ HandleReset(inflight.msg) \/ HandleAction(inflight.msg)
    /\ inflight' = NoRequest
    /\ UNCHANGED << ingestRest, http_queue >>

\* http_server._HttpHandler.do_POST on /action: no reset branch, and the
\* queue is the module's own
HttpPost ==
    /\ inflight.via = "http"
    /\ LET body == inflight.msg
           action == Get(body.action, "")
           text == ActionTextOf(action, body.data)
       IN  /\ text # "" => Len(http_queue) < MaxQueue
           /\ http_queue' = QueuePut(http_queue, text)
    /\ inflight' = NoRequest
    /\ UNCHANGED << ingestRest, unmuters, nstatus, action_queue,
                    reset_event >>

InitIngest == InitRobot

NextIngest ==
    \/ Receive
    \/ WsHandle
    \/ HttpPost

SpecIngest == InitIngest /\ [][NextIngest]_vars

\* ------------------------------------------------------------------------
\* The action channel: two producers (a client's handler, the terminal
\* thread) and the session as consumer
\* ------------------------------------------------------------------------
ChannelClient ==
    /\ \E msg \in ClientMessages :
          HandleReset(msg) \/ HandleActionUpTo(msg, MaxPending)
    /\ UNCHANGED << ttsVars, rec_utt, robotVars >>

ChannelTerminal == TerminalInputUpTo(MaxPending)

ChannelGet == AskGetUpTo(MaxReads)

InitChannel == InitRobot

NextChannel ==
    \/ ChannelClient
    \/ ChannelTerminal
    \/ RunTop
    \/ FlushSpeak
    \/ AskReset
    \/ ChannelGet
    \/ GotReset
    \/ Proceed

SpecChannel == InitChannel /\ [][NextChannel]_vars

\* ------------------------------------------------------------------------
\* Specification SpecGateway: the event loop of ws_server with its display
\* clients (connect, first send, broadcast, disconnect), next to the first
\* stages of the session loop, which produces the snapshots.
\* ------------------------------------------------------------------------
InitGateway == InitRobot

\* the action reads of the session, explored up to MaxReads
GatewayGet == AskGetUpTo(MaxReads)

NextGateway ==
    \/ LoopStart
    \/ \E c \in Clients : HandlerAdd(c)
    \/ \E c \in Clients : HandlerSend(c)
    \/ \E c \in Clients : ClientClose(c)
    \/ \E c \in Clients : HandlerFinally(c)
    \/ RunBroadcast
    \/ RunSends
    \/ RunTop
    \/ FlushSpeak
    \/ GatewayGet
    \/ Proceed
    \/ TerminalInput

SpecGateway == InitGateway /\ [][NextGateway]_vars

\* ------------------------------------------------------------------------
\* Specification SpecSim: the same session loop with the simulated sensors
\* (--dummy): readings arrive on device_queue from simulate_reading timers.
\* ------------------------------------------------------------------------
InitSim ==
    /\ \E a \in SilentSetups :
          InitTtsVars(TtsInit(a.requested, a.has_model, a.has_piper))
    /\ InitRobotVars({"dummy"})

NextSim ==
    \/ RunTop
    \/ FlushSpeak
    \/ CeilingCheck
    \/ AskReset
    \/ AskGet
    \/ GotReset
    \/ Proceed
    \/ Question
    \/ ConfirmReading
    \/ RetryOrGiveUp
    \/ RecapDone
    \/ AcquireDummy
    \/ AcquireDummyTimeout
    \/ \E d \in Devices : SimPush(d)
    \/ ClientAction
    \/ TerminalInput

SpecSim == InitSim /\ [][NextSim]_vars

\* ------------------------------------------------------------------------
\* Properties of the turn arbiter
\* ------------------------------------------------------------------------
Born(w) == workers[w].pc # "unborn"

\* the sequence number allocated by the w-th speak(), 0 before allocation
EpochOf(w) ==
    IF Born(w) THEN workers[w].seq
    ELSE IF w = nspeak /\ tpc \in {"sp_bcast", "sp_start"} THEN tseq
    ELSE 0

\* worker w executes the last statement of its finally block
FinUnmuteStep(w) ==
    /\ workers[w].pc = "fin_unmute"
    /\ workers'[w].pc \in {"done", "skipped"}

\* the utterance of worker w is being synthesised or played: w is the worker
\* of the current epoch and has not finished playback, or its player runs
Playing(w) ==
    \/ /\ workers[w].seq = current_seq
       /\ workers[w].pc \in {"w_start", "readseq", "check", "launch",
                             "register", "wait"}
    \/ procs[w] = "running"

\* C1 - epoch law, local playback: once the sequence number of a later
\* speak(B) is the current one, the final step of the worker of an earlier
\* speak(A) leaves a set capture-suppression flag set.
C1_EpochLaw ==
    [][\A a \in Workers :
          (/\ FinUnmuteStep(a)
           /\ \E b \in Workers : b > a /\ EpochOf(b) = current_seq
           /\ muted)
          => muted']_vars

\* speak(A), speak(B) with no stop(): A's worker ran its cleanup under B's
\* epoch and the flag is still set
C1_Witness ==
    /\ nstop = 0
    /\ workers[1].pc = "skipped"
    /\ EpochOf(2) = current_seq
    /\ muted

\* C2 - local playback: whenever an utterance is still being synthesised or
\* played, the capture-suppression flag is set.
C2_MutedWhilePlaying == \A w \in Workers : Playing(w) => is_muted

\* C3 - supersession: when speak() or stop() has returned, no player
\* process of an utterance older than the current epoch is running.
C3_Superseded ==
    tpc = "idle" =>
        \A w \in Workers :
            (Born(w) /\ workers[w].seq # current_seq) => procs[w] # "running"

\* the last bump of the epoch was made by stop(): no utterance is current
Stopped ==
    /\ mode = "local"
    /\ current_seq > 0
    /\ \A w \in Workers : EpochOf(w) # current_seq

\* C4 - after stop() has bumped the epoch, no step clears the
\* capture-suppression flag and no step broadcasts tts_active=false: the
\* cleanup of the stopped worker has no effect on shared state.
C4_StopNoCleanup ==
    [][Stopped => (muted => muted') /\ bcast_false' = bcast_false]_vars

\* speak(); stop(): the stopped worker completed its cleanup without effect
C4_Witness ==
    /\ Stopped
    /\ nspeak = 1
    /\ workers[1].pc = "skipped"
    /\ muted
    /\ bcast_false = 0

\* C5 - the sequence number never decreases, every completed speak() and
\* stop() has strictly increased it (after nspeak + nstop completed calls it
\* is at least that large), at most one worker holds the current number, and
\* a worker holding an older number neither unmutes nor broadcasts
\* tts_active=false.
C5_EpochPerCall ==
    [][/\ current_seq' >= current_seq
       /\ (mode # "none" /\ tpc = "idle") => current_seq >= nspeak + nstop
       /\ Cardinality({w \in Workers :
                          Born(w) /\ workers[w].seq = current_seq}) <= 1
       /\ \A w \in Workers :
             (/\ workers[w].pc \in {"fin_bcast", "fin_unmute"}
              /\ workers[w].seq # current_seq
              /\ workers'[w] # workers[w])
               => (muted => muted') /\ bcast_false' = bcast_false]_vars

\* C6 - temi playback: an unmute that belongs to an utterance older than the
\* one whose speak() muted last (its fallback timer, or the delayed unmute
\* of its stop notification) never clears the set flag.
C6_TemiUnmuteGuarded ==
    [][/\ \A t \in Workers :
            (/\ timers[t].st = "fire_unmute"
             /\ timers'[t].st = "fire_bcast"
             /\ t < LastMuted
             /\ muted) => muted'
       /\ \A u \in Unmuters :
            (/\ unmuters[u].st = "sleeping"
             /\ unmuters'[u].st = "done"
             /\ unmuters[u].utt < LastMuted
             /\ muted) => muted']_vars

\* C7 - while the capture-suppression flag is set, the recognition pipeline
\* drops the recognized text: it places nothing on the action queue.
C7_MutedDropsSpeech ==
    [][(is_muted /\ rec_utt # NoUtt /\ rec_utt' = NoUtt)
          => action_queue' = action_queue]_vars

\* ------------------------------------------------------------------------
\* Properties of the session loop
\* ------------------------------------------------------------------------
\* the session state right after idle_node on a fresh state
IdleState == SetPageState(FreshState, "idle", NodeMessage(FreshState, "idle"))

\* C8 - reset during a read of the action channel: while the reset signal is
\* set and the loop is inside _ask_user, the session state and the snapshot
\* do not change and the read can only end by unwinding to the top of run();
\* from there the next stage entered is Idle with a fresh session.
C8_ResetDuringAsk ==
    [][/\ (pc \in {"ask", "got"} /\ reset_event) =>
             /\ st' = st
             /\ ws_state' = ws_state
             /\ pc' \in (IF pc = "ask" THEN {"ask", "got", "run_top"}
                                       ELSE {"got", "run_top"})
       /\ (pc = "run_top" /\ pc' # pc) =>
             (pc' = "flush_ask" /\ st' = IdleState)]_vars

\* a reset unwound the reading confirmation of the blood-pressure cycle
C8_Witness ==
    /\ pc = "run_top"
    /\ reset_event
    /\ st.current_stage = "bp_done"

\* C9 - reset during a device acquisition: the next stage entered is Idle
\* (no Done or Sorry in between) and the readings are discarded.
C9_ResetDuringAcquisition ==
    [][(/\ pc = "acquire"
        /\ reset_event
        /\ st'.current_stage # st.current_stage)
          => (/\ st'.current_stage = "idle"
              /\ st'.readings = FreshState.readings)]_vars

\* C10 - after MAX_RETRIES consecutive timeouts of one device the loop shows
\* the Sorry page and goes back to the top of run() without reading an
\* action, and the next stage is Idle with retry_count = 0.
C10_CeilingReturnsToIdle ==
    [][consec = MAX_RETRIES =>
          /\ pc \in {"flush_sorry", "sorry_spoken", "run_top"}
          /\ pc' # pc =>
                CASE pc = "flush_sorry" -> pc' = "sorry_spoken" /\ st' = st
                  [] pc = "sorry_spoken" -> pc' = "run_top" /\ st' = st
                  [] OTHER -> /\ pc' = "flush_ask"
                              /\ st'.current_stage = "idle"
                              /\ st'.retry_count = 0]_vars

\* the third device (scale) timed out MAX_RETRIES times in a row
C10_Witness ==
    /\ consec = MAX_RETRIES
    /\ device = "scale"
    /\ st.current_stage = "sorry"
    /\ st.retry_count = MAX_RETRIES

\* the texts that _confirm_reading takes for the redo keyword
RedoTexts == {"retry", "Retry", "RETRY"}

\* the session thread is about to act on the action that _ask_user returned
Returned == pc = "got" /\ ~reset_event /\ pc' # pc

C12_RedoKeyword ==
    [][(Returned /\ st.current_stage \in DoneStages) =>
          IF user_input \in RedoTexts
            THEN /\ st'.current_stage = ReadingOf[device]
                 /\ pc' = "flush_acquire"
                 /\ device' = device
                 /\ st'.retry_count = st.retry_count
                 /\ st'.readings = st.readings
            ELSE /\ ConfirmStep(TRUE) =>
                      /\ st'.current_stage =
                            (IF NextDevice[device] = "none" THEN "recap"
                             ELSE IntroOf[NextDevice[device]])
                      /\ st'.retry_count = st.retry_count
                 /\ st'.current_stage # st.current_stage => ConfirmStep(TRUE)
      ]_vars

\* the terminal's "Retry" at the Done page of the scale started a second
\* acquisition
C12_Witness ==
    /\ pc = "acquire"
    /\ st.current_stage = "scale_reading"
    /\ st.readings["scale"] # NoReading
    /\ st.retry_count = 0

\* C13 - an acquisition failure increments the counter, then enters Sorry
\* with the incremented count in its message and snapshot, then speaks
\* it; below the ceiling one action is read and classified (retry: Reading
\* of the same device; otherwise back to the top of run(), i.e. Idle); at
\* the ceiling no action is read and the loop is back at the top of run().
C13_FailureOrder ==
    [][/\ (pc = "acquire" /\ st'.current_stage = "sorry") =>
             /\ st'.retry_count = st.retry_count + 1
             /\ st'.robot_response =
                    << "sorry", st.retry_count + 1, MAX_RETRIES >>
             /\ ws_state'.data.message = st'.robot_response
             /\ pc' = "flush_sorry"
       /\ (pc = "flush_sorry" /\ pc' # pc) =>
             /\ pc' = "sorry_spoken"
             /\ said' = st.robot_response
             /\ st' = st
       /\ (pc = "sorry_spoken" /\ pc' # pc) =>
             /\ pc' = (IF st.retry_count >= MAX_RETRIES THEN "run_top"
                                                        ELSE "ask")
             /\ st' = st
       /\ (Returned /\ st.current_stage = "sorry") =>
             /\ RetryStep(TRUE) =>
                   /\ st'.current_stage = ReadingOf[device]
                   /\ pc' = "flush_acquire"
                   /\ device' = device
             /\ RetryStep(FALSE) => (pc' = "run_top" /\ st' = st)
             /\ RetryStep(TRUE) \/ RetryStep(FALSE)
       /\ (pc = "run_top" /\ pc' # pc) => st'.current_stage = "idle"]_vars

\* the blood-pressure monitor failed twice and the user chose retry twice
C13_Witness ==
    /\ pc = "acquire"
    /\ st.current_stage = "bp_reading"
    /\ st.retry_count = 2
    /\ consec = 2

\* the stage that follows each questionnaire stage in the script
ScriptAfterQuestion(q) ==
    CASE q = "q1" -> "q2" [] q = "q2" -> "q3" [] q = "q3" -> "measure_intro"

\* C14 - when the input at question k is classified answer(X), answers[k]
\* becomes X, every other answer keeps its value and the next stage of the
\* script is entered; whenever the answers change at a questionnaire
\* stage, only answers[k] changes, to an option of k or to "skipped".
C14_AnswerRecorded ==
    [][/\ \A v \in Values :
            QuestionStep("answer", v) =>
                LET k == st.current_stage
                IN  /\ st'.answers[k] = v
                    /\ \A j \in QKeys \ {k} : st'.answers[j] = st.answers[j]
                    /\ st'.current_stage = ScriptAfterQuestion(k)
       /\ (pc = "got" /\ st.current_stage \in QKeys
             /\ st'.answers # st.answers) =>
             LET k == st.current_stage
             IN  /\ st'.answers[k] \in OPTIONS[k] \cup {"skipped"}
                 /\ \A j \in QKeys \ {k} : st'.answers[j] = st.answers[j]
      ]_vars

\* the first two questions were answered with an option each
C14_Witness ==
    /\ st.current_stage = "q3"
    /\ st.answers["q1"] = "Many times per day"
    /\ st.answers["q2"] = "Daily"
    /\ st.answers["q3"] = Absent

\* C15 - when the input at question k is classified skip, answers[k]
\* becomes "skipped" and the next stage of the script is entered (q1 to
\* q2, q2 to q3, q3 to measure_intro).
C15_SkipRecorded ==
    [][\A v \in Values :
          QuestionStep("skip", v) =>
              LET k == st.current_stage
              IN  /\ st'.answers[k] = "skipped"
                  /\ \A j \in QKeys \ {k} : st'.answers[j] = st.answers[j]
                  /\ st'.current_stage = ScriptAfterQuestion(k)
                  /\ st'.page_id = PAGE_ID[ScriptAfterQuestion(k)]]_vars

\* the first question was skipped, the second answered, the third skipped
C15_Witness ==
    /\ st.current_stage = "measure_intro"
    /\ st.answers["q1"] = "skipped"
    /\ st.answers["q2"] = "Never"
    /\ st.answers["q3"] = "skipped"

\* C16 - an input classified unclear at a questionnaire stage changes
\* nothing of the session state (stage, page id, answers, readings, retry
\* counter), sends no snapshot and leaves the queue alone: the option list
\* is spoken and the loop is back at reading an action.
C16_UnclearReprompts ==
    [][\A v \in Values :
          (QuestionStep("unclear", v)
             \/ (Returned /\ st.current_stage \in QKeys /\ pc' = "ask")) =>
              /\ st' = st
              /\ ws_state' = ws_state
              /\ action_queue' = action_queue
              /\ pc' = "ask"
              /\ said' = << "reprompt", st.current_stage,
                            OPTIONS[st.current_stage] >>]_vars

\* the second question was asked again after an unclear input
C16_Witness ==
    /\ pc = "ask"
    /\ st.current_stage = "q2"
    /\ said = << "reprompt", "q2", OPTIONS["q2"] >>

\* the stage that follows a proceed-confirmation stage
ScriptAfterProceed(stage) ==
    CASE stage = "idle" -> "welcome"
      [] stage = "welcome" -> "q1"
      [] stage = "measure_intro" -> "oximeter_intro"
      [] stage = "oximeter_intro" -> "oximeter_reading"
      [] stage = "bp_intro" -> "bp_reading"
      [] stage = "scale_intro" -> "scale_reading"
      [] stage = "oximeter_done" -> "bp_intro"
      [] stage = "bp_done" -> "scale_intro"
      [] stage = "scale_done" -> "recap"

\* C17 - at Idle, Welcome, MeasureIntro, each Intro and each Done: a proceed
\* classification enters the successor stage; a not-proceed classification
\* changes neither the session state nor the snapshot, speaks the
\* follow-up and goes back to reading an action; the stage changes (other
\* than by a restart at the top of run()) only on a proceed classification
\* or, at Done, on the redo keyword.
C17_ProceedGate ==
    [][/\ ProceedStep(TRUE) =>
             st'.current_stage = ScriptAfterProceed(st.current_stage)
       /\ (ConfirmStep(TRUE) /\ user_input \notin RedoTexts) =>
             st'.current_stage = ScriptAfterProceed(st.current_stage)
       /\ (ProceedStep(FALSE)
             \/ (ConfirmStep(FALSE) /\ user_input \notin RedoTexts)) =>
             /\ st' = st
             /\ ws_state' = ws_state
             /\ action_queue' = action_queue
             /\ said' = << "followup" >>
             /\ pc' = "ask"
       /\ (/\ st.current_stage \in ProceedStages \cup DoneStages
           /\ st'.current_stage # st.current_stage
           /\ pc # "run_top") =>
             \/ ProceedStep(TRUE)
             \/ ConfirmStep(TRUE)
             \/ st.current_stage \in DoneStages /\ user_input \in RedoTexts
      ]_vars

\* the user did not confirm at the Intro of the blood-pressure monitor
C17_Witness ==
    /\ pc = "ask"
    /\ st.current_stage = "bp_intro"
    /\ said = << "followup" >>

\* C18 - an action that was enqueued before a stage transition is never
\* returned by a read of the action channel after it: when a read takes an
\* action from the queue no queued action predates the latest transition,
\* and the flush that follows every stage entry leaves the queue empty.
C18_NoStaleInput ==
    [][/\ (pc = "ask" /\ pc' = "got") => stale = 0
       /\ (pc \in FlushPcs /\ pc' # pc) =>
             (action_queue' = << >> /\ pc' = AfterFlush[pc])
       /\ (pc' = "ask" /\ pc \in FlushPcs) => action_queue' = << >>]_vars

\* Welcome was entered while an action sent during Idle was still queued
C18_Witness ==
    /\ pc = "flush_ask"
    /\ st.current_stage = "welcome"
    /\ stale = 1
    /\ action_queue # << >>

\* a stage is being entered: _set_page has handed the snapshot over, the
\* flush and the speech are still to come
Entering == pc' \in FlushPcs /\ pc \notin FlushPcs

\* C19 - every stage entry first updates stage, page id and response text,
\* builds the snapshot from the updated state and hands it to the gateway
\* (the queue and the spoken message being still the old ones), then
\* flushes the queue and speaks the new message; the snapshot changes at
\* stage entries only and carries the page id of the stage entered.
C19_StageEntryOrder ==
    [][/\ Entering =>
             /\ st'.page_id = PAGE_ID[st'.current_stage]
             /\ ws_state'.page_id = PageInt(PAGE_ID[st'.current_stage])
             /\ ws_state'.data = BuildData(st')
             /\ said' = said
             /\ pc # "run_top" => action_queue' = action_queue
       /\ (pc \in FlushPcs /\ pc' # pc) =>
             /\ action_queue' = << >>
             /\ said' = st.robot_response
             /\ st' = st
             /\ ws_state' = ws_state
             /\ pc' \notin FlushPcs
       /\ (ws_state' # ws_state \/ st'.current_stage # st.current_stage
             \/ st'.robot_response # st.robot_response) => Entering]_vars

\* the snapshot of the blood-pressure Reading page is out, a queued action
\* is not yet flushed and the page's message not yet spoken
C19_Witness ==
    /\ pc = "flush_acquire"
    /\ st.current_stage = "bp_reading"
    /\ ws_state.page_id = 11
    /\ action_queue # << >>
    /\ said # st.robot_response

\* the stage changes the script allows from stage `a` of state s
Successors(s, a) ==
    CASE a = "idle" -> {"welcome"}
      [] a = "welcome" -> {"q1"}
      [] a = "q1" -> {"q2"}
      [] a = "q2" -> {"q3"}
      [] a = "q3" -> {"measure_intro"}
      [] a = "measure_intro" -> {"oximeter_intro"}
      [] a = "oximeter_intro" -> {"oximeter_reading"}
      [] a = "oximeter_reading" -> {"oximeter_done", "sorry"}
      [] a = "oximeter_done" -> {"oximeter_reading", "bp_intro"}
      [] a = "bp_intro" -> {"bp_reading"}
      [] a = "bp_reading" -> {"bp_done", "sorry"}
      [] a = "bp_done" -> {"bp_reading", "scale_intro"}
      [] a = "scale_intro" -> {"scale_reading"}
      [] a = "scale_reading" -> {"scale_done", "sorry"}
      [] a = "scale_done" -> {"scale_reading", "recap"}
      [] a = "sorry" -> {s.retry_stage}
      [] a = "recap" -> {}

\* C20 - the stage changes only along the script: the linear part up to
\* the oximeter Intro; per device Intro to Reading, Reading to Done or
\* Sorry, Sorry and Done back to the Reading of the same device, Done to
\* the next device's Intro (Recap after the scale); and to Idle only at the
\* top of run().  A Sorry stage belongs to the device whose Reading it
\* followed.
C20_ScriptOrder ==
    [][/\ st'.current_stage # st.current_stage =>
             \/ st'.current_stage \in Successors(st, st.current_stage)
             \/ pc = "run_top" /\ st'.current_stage = "idle"
       /\ st'.current_stage = "sorry" =>
             st'.retry_stage = ReadingOf[device']
       /\ (device' # "none") =>
             st'.current_stage \in {IntroOf[device'], ReadingOf[device'],
                                    DoneOf[device'], "sorry"}]_vars

\* a session ran through all three device cycles to the Recap and is about
\* to restart
C20_Witness ==
    /\ pc = "run_top"
    /\ st.current_stage = "recap"
    /\ \A k \in RKeys : st.readings[k] # NoReading

\* ------------------------------------------------------------------------
\* C21 - the page id is a function of the stage: in every reachable state
\* the page id of the session is the one config.PAGE_CONFIG gives for the
\* current stage, whatever the answers, readings and retry counter are, and
\* a step that keeps the stage keeps the page id.
C21_PageOfStage ==
    [][/\ st.page_id = PAGE_ID[st.current_stage]
       /\ st'.page_id = PAGE_ID[st'.current_stage]
       /\ st'.current_stage = st.current_stage => st'.page_id = st.page_id]_vars

\* the Sorry page reached a second time, with an answer and a reading held
C21_Witness ==
    /\ st.current_stage = "sorry"
    /\ st.retry_count = 2
    /\ st.answers["q1"] # Absent
    /\ st.readings["oximeter_hr"] # NoReading
    /\ st.page_id = "17"

\* ------------------------------------------------------------------------
\* C28 - every Idle stage is a fresh session: whenever the stage is Idle
\* the answers and readings are empty, retry_stage is "" and retry_count is
\* 0, and the snapshot made on entering Idle carries no data; this holds
\* for the entry after Recap, after a reset, after a give-up and after the
\* retry ceiling alike.
C28_IdleIsFresh ==
    [][/\ st.current_stage = "idle" =>
             /\ st.answers = [k \in QKeys |-> Absent]
             /\ st.readings = [k \in RKeys |-> NoReading]
             /\ st.retry_stage = ""
             /\ st.retry_count = 0
       /\ (st'.current_stage = "idle" /\ pc' = "flush_ask" /\ pc # pc') =>
             /\ pc = "run_top"
             /\ st' = IdleState
             /\ ws_state' = [page_id |-> 1, data |-> BuildData(IdleState)]]_vars

\* Idle entered again after the user gave up at the Sorry prompt of a
\* session that held answers
C28_Witness ==
    /\ st.current_stage = "idle"
    /\ pc = "flush_ask"
    /\ said = NoProblemMsg

\* ------------------------------------------------------------------------
\* the speak() call that started worker w is the latest call of speak() or
\* stop(): its epoch is still the current one
Latest(w) == Born(w) /\ workers[w].seq = current_seq

\* C29 - local playback always gives capture back: once the worker of a
\* speak() call runs, the capture-suppression flag is eventually cleared
\* unless a later speak() or stop() supersedes the call, whatever the worker
\* met (playback to its end, synthesis error, no audio, no player); and the
\* flag is cleared only by the last step of a worker, after its drain delay.
C29_EventuallyUnmuted ==
    /\ \A w \in Workers : Latest(w) ~> (~muted \/ ~Latest(w))
    /\ [][(muted /\ ~muted') =>
             \E w \in Workers : /\ workers[w].pc = "fin_unmute"
                                /\ workers'[w].pc = "done"]_vars

\* the flag was cleared by a worker that never started a player process
C29_Witness ==
    \E w \in Workers :
       /\ workers[w].pc = "done"
       /\ procs[w] = "none"
       /\ Latest(w)
       /\ ~muted

Last(q) == q[Len(q)]

\* nothing is under way: no callback waits on the event loop, no handler
\* is inside its first send and the session thread is not inside
\* update_state
Quiescent ==
    /\ loopq = << >>
    /\ LoopFree
    /\ pc \notin FlushPcs

Shows(m, state) == m.page_id = state.page_id /\ m.data = state.data

\* C22 - a client is never left behind: a client whose connection is open
\* has received a state message (the one sent on connect), and whenever the
\* system is quiescent the last state message of every open client is the
\* snapshot now held by the gateway, however the connection interleaved
\* with update_state.
C22_ConnectGetsLatest ==
    \A c \in Clients :
       conn[c] = "open" =>
          /\ recv[c] # << >>
          /\ recv[c][1].type = "state"
          /\ Quiescent => /\ Shows(Last(recv[c]), ws_state)
                          /\ Last(recv[c]).ver = ver

\* the second client connected between the assignment of a new snapshot
\* and its broadcast: it was greeted with that snapshot and then received
\* it again
C22_Witness ==
    /\ Quiescent
    /\ conn[2] = "open"
    /\ Len(recv[2]) = 2
    /\ recv[2][1].ver = recv[2][2].ver
    /\ recv[2][1].ver > 0
    /\ st.current_stage = "welcome"

\* the step is the departure of client c: its connection closes, or the
\* handler leaves (first send failed, or end of the receive loop)
Departs(c) ==
    /\ conn[c] \in {"added", "open", "closing"}
    /\ conn'[c] \in {"closing", "gone"}
    /\ conn'[c] # conn[c]

\* the step runs the gathered sends at the head of the event loop
SendsRun ==
    /\ loopq # << >>
    /\ Head(loopq).kind = "send"
    /\ loopq' = Tail(loopq)

\* C23 - a departure is local: the step in which a client's connection
\* closes or its handler leaves changes nothing of the session (state,
\* position, snapshot, action queue, reset signal) and nothing of the other
\* clients; once the handler has left, the client is out of the broadcast
\* set; and gathered sends deliver to every target whose connection is
\* open even when another target's send fails, every open client being a
\* target of every broadcast.
C23_DepartureIsLocal ==
    [][/\ \A c \in Clients :
             Departs(c) =>
                /\ UNCHANGED << st, pc, ws_state, action_queue, reset_event,
                                user_input, loopq, ver >>
                /\ conn'[c] = "gone" => c \notin clients'
                /\ \A d \in Clients \ {c} :
                      /\ (d \in clients') = (d \in clients)
                      /\ conn'[d] = conn[d]
                      /\ recv'[d] = recv[d]
       /\ \A d \in Clients : conn[d] \in {"open", "closing"} => d \in clients
       /\ SendsRun =>
             \A d \in Clients :
                (d \in Head(loopq).to /\ conn[d] = "open")
                   => recv'[d] = Append(recv[d], Head(loopq).msg)
       /\ (Quiescent /\ \E c \in Clients : conn[c] \in {"closing", "gone"}) =>
             \A d \in Clients :
                conn[d] = "open" => Last(recv[d]).ver = ver]_vars

\* client 1 closed its connection and is still in the broadcast set; a
\* snapshot it missed has been delivered to client 2
C23_Witness ==
    /\ conn[1] = "closing"
    /\ 1 \in clients
    /\ conn[2] = "open"
    /\ recv[1] # << >>
    /\ Last(recv[1]).ver < Last(recv[2]).ver
    /\ Last(recv[2]).ver = ver

\* C24 - snapshots arrive in the order of the transitions, one per
\* transition: in what a client has received over its connection (the
\* greeting sent on connect, then the broadcasts) the rank of the snapshot
\* never decreases and never skips a transition, and after the greeting
\* each message is the snapshot of the next transition.
C24_InTransitionOrder ==
    \A c \in Clients :
       \A i \in 1..(Len(recv[c]) - 1) :
          /\ recv[c][i].ver <= recv[c][i + 1].ver
          /\ recv[c][i + 1].ver <= recv[c][i].ver + 1
          /\ i >= 2 => recv[c][i + 1].ver = recv[c][i].ver + 1


\* ------------------------------------------------------------------------
\* Properties of the inbound side (SpecIngest, SpecChannel)
\* ------------------------------------------------------------------------
\* the text announced for an action message: the phrase of the nine
\* keywords, data.answer for "answer", else the keyword itself
AnnouncedText(msg) ==
    LET a == Get(msg.action, "")
    IN  CASE a = "start" -> "Start Self-Screening"
          [] a \in {"confirm", "accept"} -> "yes"
          [] a = "ready" -> "ready"
          [] a = "continue" -> "continue"
          [] a = "skip" -> "skip"
          [] a = "retry" -> "retry"
          [] a = "exit" -> "no"
          [] a = "finish" -> "done"
          [] a = "answer" /\ "answer" \in DOMAIN msg.data -> msg.data.answer
          [] OTHER -> a

\* the step in which the given transport finishes handling its request
Handles(via) == inflight.via = via /\ inflight' = NoRequest

\* C25 - for every inbound action message the protocol server enqueues the
\* announced text: the mapped phrase of the nine keywords, data.answer
\* verbatim for "answer", the keyword itself for any other keyword; "reset"
\* enqueues nothing and only sets the reset signal; an empty text is not
\* enqueued; and nothing but "reset" touches the reset signal.
C25_EnqueuedText ==
    [][Handles("ws") =>
          IF Get(inflight.msg.action, "") = "reset"
            THEN /\ action_queue' = action_queue
                 /\ reset_event'
            ELSE /\ reset_event' = reset_event
                 /\ action_queue' =
                       IF AnnouncedText(inflight.msg) = ""
                         THEN action_queue
                         ELSE Append(action_queue,
                                     AnnouncedText(inflight.msg))]_vars

\* an answer was enqueued verbatim and a reset set the signal without
\* adding to the queue
C25_Witness ==
    /\ inflight = NoRequest
    /\ action_queue = << "Often" >>
    /\ reset_event

\* C26 - POST /action has the effect of the same message sent to the
\* protocol server, on the queue the transport feeds and on the reset
\* signal: "reset" sets the signal and enqueues nothing, any other message
\* enqueues the text the protocol server would enqueue and leaves the
\* signal alone.
C26_HttpAsWs ==
    [][Handles("http") =>
          LET a == Get(inflight.msg.action, "")
          IN  IF a = "reset"
                THEN /\ http_queue' = http_queue
                     /\ reset_event'
                ELSE /\ reset_event' = reset_event
                     /\ http_queue' =
                           QueuePut(http_queue,
                                    ActionTextOf(a, inflight.msg.data))]_vars

\* C27 - the action channel is FIFO across its producers and delivers each
\* action at most once: the queue changes only by a producer appending at
\* the tail, by the session taking the head (which becomes its input) or by
\* a flush emptying it; and the session's input becomes a new text only by
\* taking the head of the queue.
C27_FifoChannel ==
    [][/\ action_queue' # action_queue =>
             \/ /\ \E text \in {"yes", "Retry"} :
                      action_queue' = Append(action_queue, text)
                /\ user_input' = user_input
             \/ /\ action_queue # << >>
                /\ action_queue' = Tail(action_queue)
                /\ user_input' = Head(action_queue)
             \/ /\ action_queue' = << >>
                /\ user_input' = user_input
       /\ (user_input' # user_input /\ user_input' # Absent) =>
             /\ action_queue # << >>
             /\ user_input' = Head(action_queue)
             /\ action_queue' = Tail(action_queue)]_vars

\* the terminal's line was enqueued before the client's button and was
\* delivered first; the button's text still waits
C27_Witness ==
    /\ pc = "got"
    /\ user_input = "Retry"
    /\ action_queue = << "yes" >>
    /\ stale = 0


\* ------------------------------------------------------------------------
\* C31 - flushing never clears the reset signal: the flush of a stage
\* transition leaves the signal as it was, only the top of a new iteration
\* of run() clears it, and a signal that is set when the session reads the
\* action channel makes that read unwind to the top of run() instead of
\* returning an action.
C31_FlushKeepsReset ==
    [][/\ (pc \in FlushPcs /\ pc' # pc) => reset_event' = reset_event
       /\ (reset_event /\ ~reset_event') => (pc = "run_top" /\ pc' = "flush_ask")
       /\ (reset_event /\ pc = "ask" /\ pc' # pc) => pc' \in {"got", "run_top"}
       /\ (reset_event /\ pc = "got" /\ pc' # pc) =>
             (pc' = "run_top" /\ st' = st)]_vars

\* a reset set before the flush of the Welcome page is still set while the
\* session waits for the action of that page
C31_Witness ==
    /\ reset_event
    /\ pc = "ask"
    /\ st.current_stage = "welcome"
    /\ action_queue = << >>
    /\ user_input = Absent


\* the step takes the session back to the top of run() from a stage that
\* is not Recap
BackToStart ==
    /\ pc # "run_top"
    /\ pc' = "run_top"
    /\ st.current_stage # "recap"

\* C32 (as stated) - a session returns to Idle before Recap only through
\* retry-ceiling exhaustion or a reset signal.
C32_OnlyCeilingOrReset ==
    [][BackToStart =>
          \/ reset_event
          \/ st.retry_count >= MAX_RETRIES]_vars

\* C32 - a session returns to Idle before Recap only through retry-ceiling
\* exhaustion, a reset signal, or the user's answer at the Sorry prompt
\* being judged as giving up (after "No problem. Returning to start.").
C32_CeilingResetOrGiveUp ==
    [][BackToStart =>
          \/ reset_event /\ pc \in {"ask", "got"}
          \/ /\ pc = "sorry_spoken"
             /\ st.retry_count >= MAX_RETRIES
             /\ said' = MaxRetriesMsg
          \/ /\ pc = "got"
             /\ st.current_stage = "sorry"
             /\ st.retry_count < MAX_RETRIES
             /\ said' = NoProblemMsg]_vars

\* the user gave up at the Sorry prompt of the first timeout
C32_Witness ==
    /\ pc = "run_top"
    /\ st.current_stage = "sorry"
    /\ st.retry_count = 1
    /\ said = NoProblemMsg
    /\ ~reset_event


\* ------------------------------------------------------------------------
\* the step is one of the session thread (robot.run and what it calls)
SessionThreadStep == pc' # pc

\* C33 - the connected-client set and the last snapshot are written only
\* from the gateway's event loop: no step of the session thread changes
\* either of them.
C33_GatewayOwnsState ==
    [][SessionThreadStep =>
          /\ ws_state' = ws_state
          /\ clients' = clients]_vars

\* C34 - a reset is never lost: while the reset signal is set, the only
\* stage the session enters is Idle (a Done or Sorry page that follows a
\* device acquisition included).
C34_ResetNeverLost ==
    [][(reset_event /\ Entering) => st'.current_stage = "idle"]_vars


\* the values device D's adapter produces for the session keys of D
ValuesOf(k) ==
    CASE k = "oximeter_hr" -> {Scalar(DeviceData("oximeter").value.hr)}
      [] k = "oximeter_spo2" -> {Scalar(DeviceData("oximeter").value.spo2)}
      [] k = "bp" -> {DeviceData("bp").value}
      [] k = "scale" -> {DeviceData("scale").value}

\* C35 - in simulated-sensor mode a reading stored under a device's key was
\* produced for that device, and an acquisition never crashes on, or takes,
\* a reading that is on the device queue for another device.
C35_ReadingOfDevice ==
    /\ pc # "crashed"
    /\ \A k \in RKeys :
          st.readings[k] # NoReading => st.readings[k] \in ValuesOf(k)


\* the snapshot _set_page builds from a session state
SnapshotOf(s) ==
    [page_id |-> PageInt(PAGE_ID[s.current_stage]), data |-> BuildData(s)]

\* C37 - whenever the session is blocked reading the action channel or in
\* a device acquisition, the gateway's last snapshot is the one of the
\* session's current stage (its page id and its data); a re-prompt or a
\* follow-up message spoken inside a stage, and the message spoken at the
\* retry ceiling, leave the snapshot and the stage as they are.
C37_SnapshotOfStage ==
    /\ [](pc \in {"ask", "acquire"} => ws_state = SnapshotOf(st))
    /\ [][/\ (pc = "got" /\ pc' = "ask") =>
                /\ ws_state' = ws_state
                /\ st' = st
                /\ said' \in {FollowUp} \cup {RePrompt(q) : q \in QKeys}
          /\ (pc = "sorry_spoken" /\ pc' # pc) => ws_state' = ws_state]_vars

\* the session waits again after a re-prompt at the second question; the
\* snapshot is still the question's
C37_Witness ==
    /\ pc = "ask"
    /\ st.current_stage = "q2"
    /\ said = RePrompt("q2")
    /\ ws_state.page_id = 4
    /\ ws_state.data.kind = "question"


\* C38 - an action enqueued while a device acquisition is in progress is
\* never consumed by the session loop: the acquisition itself reads
\* nothing from the action queue, both of its outcomes enter a new stage
\* (the device's Done stage or Sorry) with every queued action still in
\* the queue, and the flush of that stage entry empties the queue before
\* the session reads again.
C38_AcquisitionInputDropped ==
    [][/\ pc = "acquire" =>
             /\ user_input' = user_input
             /\ Len(action_queue') >= Len(action_queue)
       /\ (pc = "acquire" /\ pc' # pc) =>
             /\ pc' \in {"flush_ask", "flush_sorry", "crashed"}
             /\ action_queue' = action_queue
             /\ pc' = "flush_ask" => st'.current_stage = DoneOf[device]
             /\ pc' = "flush_sorry" => st'.current_stage = "sorry"
             /\ pc' # "crashed" => stale' = Len(action_queue)
       /\ (pc \in {"flush_ask", "flush_sorry"} /\ pc' # pc) =>
             /\ action_queue' = << >>
             /\ stale' = 0
             /\ user_input' = user_input
             /\ pc' \in {"ask", "sorry_spoken"}]_vars

\* the blood-pressure reading has succeeded while a button press made
\* during the acquisition is in the queue; the Done stage's flush is next
C38_Witness ==
    /\ pc = "flush_ask"
    /\ st.current_stage = "bp_done"
    /\ action_queue # << >>
    /\ stale = Len(action_queue)
    /\ user_input = Absent


\* the keys of state["readings"] a device's reading is stored under
KeysOfDevice ==
    [oximeter |-> << "oximeter_hr", "oximeter_spo2" >>, bp |-> << "bp" >>,
     scale |-> << "scale" >>]

\* C39 - whenever the stage is Recap the session holds, for each of q1, q2
\* and q3, one of the question's options or "skipped", and a stored reading
\* under each of the four reading keys, and the Recap snapshot carries
\* them; whenever the stage is a device's Done stage that device's reading
\* is stored in the session and the snapshot of the stage carries it.
C39_RecapComplete ==
    /\ st.current_stage = "recap" =>
          /\ \A q \in QKeys : st.answers[q] \in OPTIONS[q] \cup {"skipped"}
          /\ \A k \in RKeys : st.readings[k] \in ValuesOf(k)
          /\ ws_state.data.kind = "recap"
          /\ \A q \in QKeys : ws_state.data.answers[q] = st.answers[q]
          /\ \A k \in RKeys : ws_state.data.readings[k] = st.readings[k]
    /\ \A d \in Devices :
          st.current_stage = DoneOf[d] =>
              /\ \A i \in DOMAIN KeysOfDevice[d] :
                    st.readings[KeysOfDevice[d][i]]
                        \in ValuesOf(KeysOfDevice[d][i])
              /\ ws_state.page_id = PageInt(PAGE_ID[DoneOf[d]])
              /\ ws_state.data.kind = "value"
              /\ ws_state.data.value =
                    [i \in DOMAIN KeysOfDevice[d] |->
                        st.readings[KeysOfDevice[d][i]]]

\* the recap is on display after a session in which the second question
\* was skipped
C39_Witness ==
    /\ pc = "ask"
    /\ st.current_stage = "recap"
    /\ st.answers["q2"] = "skipped"
    /\ st.answers["q3"] \in OPTIONS["q3"]
    /\ ws_state.page_id = 16


\* an acquisition ends with a timeout
Timeout == pc = "acquire" /\ pc' = "flush_sorry"

OutsideTts == tpc = "idle"

\* _print_robot(msg) in local mode: print, then tts.speak(msg), whose first
\* statement is asr.mute(); the call goes on with SpeakLocalStop
PrintRobotLocal(msg) ==
    /\ mode = "local"
    /\ OutsideTts
    /\ nspeak < MaxSpeaks
    /\ nspeak' = nspeak + 1
    /\ asr_mute
    /\ tpc' = "sp_stop"
    /\ said' = msg
    /\ UNCHANGED << mode, stop_flag, current_seq, current_proc, bcastVars,
                    workers, procs, tret, tseq, nstop, temi_timer, timers,
                    unmuters, nstatus, rec_utt >>

\* the end of _set_page and what follows the node, as FlushSpeak, with
\* local playback
FlushSpeakLocal ==
    /\ pc \in FlushPcs
    /\ flush_action_queue
    /\ PrintRobotLocal(st.robot_response)
    /\ pc' = AfterFlush[pc]
    /\ IF pc = "flush_acquire"
         THEN StartAcquisition(device)
         ELSE UNCHANGED sim_pending
    /\ loop_running => ver < MaxUpdates
    /\ PushState
    /\ UNCHANGED << gwRest, sensor_mode, user_input, device, st, ws_state,
                    device_queue, consec >>

\* result = action_queue.get(timeout=0.2); tts.stop() begins with
\* _stop_flag.set() and goes on with StopBump and StopKill
\* (explored up to the reads whose reply can still be spoken)
AskGetLocal ==
    /\ pc = "ask"
    /\ OutsideTts
    /\ action_queue # << >>
    /\ nspeak < MaxSpeaks
    /\ user_input' = Head(action_queue)
    /\ action_queue' = Tail(action_queue)
    /\ stale' = IF stale > 0 THEN stale - 1 ELSE 0
    /\ nstop' = nstop + 1
    /\ stop_flag' = TRUE
    /\ tret' = "idle"
    /\ tpc' = "st_seq"
    /\ pc' = "got"
    /\ UNCHANGED << mode, muted, current_seq, current_proc, bcastVars,
                    workers, procs, tseq, nspeak, temi_timer, timers,
                    unmuters, nstatus, rec_utt, reset_event, sensor_mode,
                    device, st, ws_state, device_queue, sim_pending, said,
                    consec, gwVars >>

\* variant of NotProceedLocal that goes back to the read without speaking
NotProceedLocal_Silent ==
    /\ AskReturn
    /\ OutsideTts
    /\ st.current_stage \in ProceedStages
    /\ user_input' = Absent
    /\ pc' = "ask"
    /\ UNCHANGED << ttsVars, unmuters, nstatus, rec_utt, said, st, ws_state,
                    device, stale, reset_event, action_queue, sensor_mode,
                    device_queue, sim_pending, consec, gwVars >>

\* _wait_for_proceed, should_go False: self._print_robot(message), then
\* the loop repeats
NotProceedLocal ==
    /\ AskReturn
    /\ st.current_stage \in ProceedStages
    /\ user_input' = Absent
    /\ PrintRobotLocal(FollowUp)
    /\ pc' = "ask"
    /\ UNCHANGED << st, ws_state, device, stale, reset_event, action_queue,
                    sensor_mode, device_queue, sim_pending, consec, gwVars >>

\* the steps of the session thread that do not speak
VoiceTop == OutsideTts /\ RunTop
VoiceProceed == OutsideTts /\ ProceedStep(TRUE)

InitVoice == InitLocal

NextVoice ==
    \/ VoiceTop
    \/ FlushSpeakLocal
    \/ AskGetLocal
    \/ VoiceProceed
    \/ NotProceedLocal
    \/ TerminalInput
    \/ StopBump
    \/ StopKill
    \/ SpeakLocalStop
    \/ SpeakLocalClear
    \/ SpeakLocalBump
    \/ SpeakLocalBroadcast
    \/ SpeakLocalStart
    \/ \E w \in Workers : WorkerStart(w)
    \/ \E w \in Workers : WorkerReadSeq(w)
    \/ \E w \in Workers : WorkerCheck(w)
    \/ \E w \in Workers : WorkerLaunch(w)
    \/ \E w \in Workers : WorkerRegister(w)
    \/ \E w \in Workers : ProcExit(w)
    \/ \E w \in Workers : WorkerWait(w)
    \/ \E w \in Workers : WorkerFinBroadcast(w)
    \/ \E w \in Workers : WorkerFinUnmute(w)

\* the scheduling the threads get: the session thread keeps running
\* whenever it is not blocked on the empty action queue; the calls into
\* tts.py, the workers and the player processes as in FairLocal.  Nothing
\* obliges the user to type anything.
FairVoice ==
    /\ FairLocal
    /\ WF_vars(VoiceTop)
    /\ WF_vars(FlushSpeakLocal)
    /\ WF_vars(VoiceProceed \/ NotProceedLocal)

SpecVoice == InitVoice /\ [][NextVoice]_vars /\ FairVoice

\* the session thread is blocked in _ask_user on the empty action queue
\* with no reset pending
WaitsForInput ==
    pc = "ask" /\ OutsideTts /\ action_queue = << >> /\ ~reset_event

\* C36 - voice input is never locked out for good in local mode: a read
\* that got an action (and whose stop() invalidated the unmute of the
\* current worker) is followed by a speak() before the session reads
\* again, every stage entry speaks too, and once no further action
\* arrives the capture-suppression flag is eventually cleared, whenever it
\* was set.
C36_NeverLockedOut ==
    /\ muted ~> ~muted
    /\ [][/\ (pc = "got" /\ pc' = "ask") =>
                (nspeak' = nspeak + 1 /\ muted' /\ tpc' = "sp_stop")
          /\ (pc \in FlushPcs /\ pc' # pc) =>
                (nspeak' = nspeak + 1 /\ muted' /\ tpc' = "sp_stop")
          /\ (pc = "got" /\ pc' # pc) => pc' \in {"ask", "flush_ask"}
          /\ (pc = "run_top" /\ pc' # pc) => pc' = "flush_ask"]_vars

\* the session waits for input after the follow-up to a first action; the
\* worker of the greeting was invalidated by the read's stop() and capture
\* was given back by the worker of the follow-up
C36_Witness ==
    /\ WaitsForInput
    /\ said = FollowUp
    /\ nspeak = 2
    /\ workers[1].seq # current_seq
    /\ workers[1].pc = "done"
    /\ workers[2].pc = "done"
    /\ ~muted

====
